---- MODULE Spec2Model ----
(***************************************************************************)
(* FreshMart admin portal: the order lifecycle as the orders page drives   *)
(* it (changeStatus / viewOrder over the Firestore `orders` collection),   *)
(* the Cloud Functions that manage admins and users, the route guard of    *)
(* the admin pages, the tables and statistics of the orders, users and     *)
(* dashboard pages, and the storefront's API client.                       *)
(*                                                                         *)
(* The specifications share the variables below; each leaves the other     *)
(* parts of the state at their initial values:                             *)
(*   SpecOrders     the orders page, two admin sessions on one store       *)
(*   SpecFn         the callable Cloud Functions, one call at a time       *)
(*   SpecAdminRace  createAdmin / toggleAdminStatus / deleteAdmin, two     *)
(*                  calls by super admins at a time                        *)
(*   SpecUsers      the user-management callables and the users page       *)
(*   SpecAuth       checkAdminRole / loginAdmin / protectRoute (auth.js)   *)
(*   SpecOneSession the orders page, one session, two orders               *)
(*   SpecViews      the pages' snapshot listeners under the route guard    *)
(*   SpecTable      mirror, filters, pagination and statistics of the      *)
(*                  orders and users pages                                 *)
(*   SpecClient     FreshMartAPI: token, localStorage, requests in flight  *)
(*   SpecDash       the dashboard's overlapping loadOrderStats calls       *)
(*   SpecSetup      setupInitialSuperAdmin, two calls at a time            *)
(***************************************************************************)
EXTENDS Integers, Sequences, FiniteSets, TLC

VARIABLES
    \* ---- orders page (src/unnamed/part_003) and the remote order store
    orders,         \* remote `orders` collection: order id -> document
    clock,          \* wall clock read by `new Date()`, in milliseconds
    currentAdmin,   \* per session: adminData handed to initOrdersPage
    allOrders,      \* per session: local mirror filled by the snapshot listener
    modal,          \* per session: the order modal as viewOrder rendered it
    inflight,       \* per session: updateDoc calls awaiting the store
    toast,          \* per session: type of the last toast shown
    \* ---- Cloud Functions (src/frontend/admin-portal/functions/index.js)
    authUsers,      \* Firebase Auth: uid -> identity (role claim, disabled)
    admins,         \* Firestore `admins`: uid -> record or NoDoc
    users,          \* Firestore `users`: uid -> record or NoDoc
    calls,          \* callable invocations in progress: slot -> frame
    \* ---- auth.js
    signedIn,       \* uid the browser's Firebase Auth holds, 0 when signed out
    guard,          \* per tab: the listener protectRoute registered
    initCalls,      \* per tab: page and adminData of the last init callback call
    login,          \* the login page's loginAdmin call
    \* ---- snapshot listeners of the dashboard, orders and users pages
    remote,         \* the watched collections: collection -> doc id -> state
    view,           \* per tab: active listeners, mirror, last notifications
    \* ---- the table of the orders page (part_003) and users page (part_004)
    table,          \* mirror, filter inputs, filtered list, page, statistics
    \* ---- storefront client (src/unnamed/part_000)
    api,            \* FreshMartAPI: token, user, localStorage, last request
    \* ---- dashboard (dashboard.js)
    dash            \* remote orders, statistics fetches in flight, display

orderVars == <<orders, clock, currentAdmin, allOrders, modal, inflight, toast>>
fnVars    == <<authUsers, admins, users, calls>>
authVars  == <<signedIn, guard, initCalls, login>>
viewVars  == <<remote, view>>
pageVars  == <<table, api, dash>>
vars      == <<orders, clock, currentAdmin, allOrders, modal, inflight, toast,
               authUsers, admins, users, calls,
               signedIn, guard, initCalls, login, remote, view,
               table, api, dash>>

(***************************************************************************)
(* Bounds of the model.                                                    *)
(***************************************************************************)
MaxTime     == 1    \* the clock runs 0..MaxTime
MaxHistory  == 3    \* no further changeStatus click once an order's statusHistory,
                    \* with the writes still awaiting the store, is this long
MaxPending  == 1    \* no further assignDelivery click while this many writes
                    \* await the store

Sessions    == {"s1", "s2"}
OrderIds    == {"o1", "o2"}
AdminEmails == {"ann@freshmart", "bob@freshmart"}

(***************************************************************************)
(* ORDERS PAGE                                                             *)
(***************************************************************************)
Statuses == {"confirmed", "packed", "out_for_delivery", "delivered", "cancelled"}

NoPartner == [name |-> "", phone |-> ""]

\* formatStatus: the display label of a status.
formatStatus(status) ==
    CASE status = "confirmed"        -> "Confirmed"
      [] status = "packed"           -> "Packed"
      [] status = "out_for_delivery" -> "Out for Delivery"
      [] status = "delivered"        -> "Delivered"
      [] status = "cancelled"        -> "Cancelled"
      [] OTHER                       -> status

\* The entry changeStatus builds for statusHistory.
historyEntry(newStatus, now, email) ==
    [status    |-> newStatus,
     timestamp |-> now,
     message   |-> <<"Order", formatStatus(newStatus), "by admin">>,
     updatedBy |-> email]

\* An order as the storefront checkout leaves it in the store.
NewOrder ==
    [status        |-> "confirmed",
     statusHistory |-> <<[status    |-> "confirmed",
                          timestamp |-> 0,
                          message   |-> <<"Order placed">>,
                          updatedBy |-> "customer"]>>,
     updatedAt     |-> 0,
     deliveryPartner |-> NoPartner,
     items         |-> <<"item">>]

\* Firestore arrayUnion: adds the element unless an equal element is present.
arrayUnion(arr, e) ==
    IF \E i \in 1..Len(arr) : arr[i] = e THEN arr ELSE Append(arr, e)

\* The status buttons viewOrder renders for an order whose mirrored status is
\* `status`: none for cancelled or delivered, else the forward step and Cancel.
statusButtons(status) ==
    IF status = "cancelled" THEN {}
    ELSE IF status = "delivered" THEN {}
    ELSE (IF status = "confirmed" THEN {"packed"} ELSE {})
         \cup (IF status = "packed" THEN {"out_for_delivery"} ELSE {})
         \cup (IF status = "out_for_delivery" THEN {"delivered"} ELSE {})
         \cup {"cancelled"}

\* The delivery assignment form, which viewOrder renders for a packed order.
deliveryForm(status) == status = "packed"

\* What the admin can type into deliveryName / deliveryPhone (after trim()).
DriverNames  == {"", "dan"}
DriverPhones == {"", "555"}

ClosedModal == [open |-> FALSE, orderId |-> "", buttons |-> {}, delivery |-> FALSE]
EmptyMirror == [o \in {} |-> NewOrder]

\* Two admin sessions, and one order in the store.
InitOrders ==
    /\ orders = [o \in {"o1"} |-> NewOrder]
    /\ clock = 0
    /\ currentAdmin \in [Sessions -> [email : AdminEmails]]
    /\ currentAdmin["s1"].email = "ann@freshmart"
    /\ allOrders = [s \in Sessions |-> EmptyMirror]
    /\ modal = [s \in Sessions |-> ClosedModal]
    /\ inflight = [s \in Sessions |-> <<>>]
    /\ toast = [s \in Sessions |-> "none"]

\* The orders page touches neither the Cloud Functions' state nor auth.js's.
OrdersFrame == UNCHANGED <<authUsers, admins, users, calls,
                           signedIn, guard, initCalls, login, remote, view,
                           table, api, dash>>

\* Time passes.
Tick ==
    /\ OrdersFrame
    /\ clock < MaxTime
    /\ clock' = clock + 1
    /\ UNCHANGED <<orders, currentAdmin, allOrders, modal, inflight, toast>>

\* listenToOrders' snapshot callback: the mirror is rebuilt from the snapshot.
OnSnapshot(s) ==
    /\ OrdersFrame
    /\ allOrders' = [allOrders EXCEPT ![s] = orders]
    /\ UNCHANGED <<orders, clock, currentAdmin, modal, inflight, toast>>

\* window.viewOrder: renders the modal from the mirror's copy of the order.
viewOrder(s, orderId) ==
    /\ OrdersFrame
    /\ orderId \in DOMAIN allOrders[s]
    /\ modal' = [modal EXCEPT ![s] =
                    [open    |-> TRUE,
                     orderId |-> orderId,
                     buttons |-> statusButtons(allOrders[s][orderId].status),
                     delivery |-> deliveryForm(allOrders[s][orderId].status)]]
    /\ UNCHANGED <<orders, clock, currentAdmin, allOrders, inflight, toast>>

\* window.closeOrderModal (overlay click).
closeOrderModal(s) ==
    /\ OrdersFrame
    /\ modal[s].open
    /\ modal' = [modal EXCEPT ![s] = ClosedModal]
    /\ UNCHANGED <<orders, clock, currentAdmin, allOrders, inflight, toast>>

\* Number of writes awaiting the store, over all sessions.
RECURSIVE SumLen(_, _)
SumLen(q, S) ==
    IF S = {} THEN 0
    ELSE LET s == CHOOSE x \in S : TRUE IN Len(q[s]) + SumLen(q, S \ {s})

Pending == SumLen(inflight, Sessions)

\* A faulty changeStatus, for testing C13: the new status applied to the
\* mirror before the store has answered.
changeStatus_optimistic(s, newStatus) ==
    /\ OrdersFrame
    /\ modal[s].open
    /\ newStatus \in modal[s].buttons
    /\ modal[s].orderId \in DOMAIN allOrders[s]
    /\ Len(orders[modal[s].orderId].statusHistory) + Pending < MaxHistory
    /\ toast' = [toast EXCEPT ![s] = "info"]
    /\ allOrders' = [allOrders EXCEPT ![s][modal[s].orderId].status = newStatus]
    /\ inflight' = [inflight EXCEPT ![s] = Append(@,
            [kind      |-> "status",
             orderId   |-> modal[s].orderId,
             status    |-> newStatus,
             updatedAt |-> clock,
             entry     |-> historyEntry(newStatus, clock, currentAdmin[s].email),
             partner   |-> NoPartner])]
    /\ UNCHANGED <<orders, clock, currentAdmin, modal>>

\* window.changeStatus up to its await: a click on a rendered status button,
\* the confirm() dialog, and the updateDoc call handed to the store.
changeStatus(s, newStatus) ==
    /\ OrdersFrame
    /\ modal[s].open
    /\ newStatus \in modal[s].buttons
    /\ modal[s].orderId \in DOMAIN orders
    /\ Len(orders[modal[s].orderId].statusHistory) + Pending < MaxHistory
    /\ \E confirmed \in BOOLEAN :
         IF ~confirmed
         THEN UNCHANGED <<inflight, toast>>
         ELSE /\ toast' = [toast EXCEPT ![s] = "info"]
              /\ inflight' = [inflight EXCEPT ![s] = Append(@,
                    [kind      |-> "status",
                     orderId   |-> modal[s].orderId,
                     status    |-> newStatus,
                     updatedAt |-> clock,
                     entry     |-> historyEntry(newStatus, clock, currentAdmin[s].email),
                     partner   |-> NoPartner])]
    /\ UNCHANGED <<orders, clock, currentAdmin, allOrders, modal>>

\* The document updateDoc(orderRef, updateData) leaves in the store.
applyUpdate(doc, w) ==
    [doc EXCEPT !.status = w.status,
                !.updatedAt = w.updatedAt,
                !.statusHistory = arrayUnion(@, w.entry)]

\* window.changeStatus after its await: the store applies the write and the
\* promise resolves (success toast, modal closed), or the write fails and the
\* catch block shows the error toast.
changeStatusDone(s) ==
    /\ OrdersFrame
    /\ inflight[s] # <<>>
    /\ Head(inflight[s]).kind = "status"
    /\ LET w == Head(inflight[s])
       IN \E ok \in BOOLEAN :
            /\ inflight' = [inflight EXCEPT ![s] = Tail(@)]
            /\ IF ok
               THEN /\ orders' = [orders EXCEPT ![w.orderId] = applyUpdate(@, w)]
                    /\ toast' = [toast EXCEPT ![s] = "success"]
                    /\ modal' = [modal EXCEPT ![s] = ClosedModal]
               ELSE /\ toast' = [toast EXCEPT ![s] = "error"]
                    /\ UNCHANGED <<orders, modal>>
    /\ UNCHANGED <<clock, currentAdmin, allOrders>>

\* window.assignDelivery up to its await: the Assign button of the rendered
\* form, the test of the two inputs, and the updateDoc call handed to the store.
assignDelivery(s, name, phone) ==
    /\ OrdersFrame
    /\ modal[s].open
    /\ modal[s].delivery
    /\ Pending < MaxPending
    /\ IF name = "" \/ phone = ""
       THEN /\ toast' = [toast EXCEPT ![s] = "warning"]
            /\ UNCHANGED inflight
       ELSE /\ inflight' = [inflight EXCEPT ![s] = Append(@,
                    [kind      |-> "delivery",
                     orderId   |-> modal[s].orderId,
                     status    |-> "",
                     updatedAt |-> clock,
                     entry     |-> historyEntry("", clock, ""),
                     partner   |-> [name |-> name, phone |-> phone]])]
            /\ UNCHANGED toast
    /\ UNCHANGED <<orders, clock, currentAdmin, allOrders, modal>>

\* A faulty assignDelivery, for testing C12: the assignment also moves the
\* order to out_for_delivery.
assignDeliveryDone_setsStatus(s) ==
    /\ OrdersFrame
    /\ inflight[s] # <<>>
    /\ Head(inflight[s]).kind = "delivery"
    /\ LET w == Head(inflight[s])
       IN /\ inflight' = [inflight EXCEPT ![s] = Tail(@)]
          /\ orders' = [orders EXCEPT ![w.orderId].deliveryPartner = w.partner,
                                      ![w.orderId].updatedAt = w.updatedAt,
                                      ![w.orderId].status = "out_for_delivery"]
          /\ toast' = [toast EXCEPT ![s] = "success"]
    /\ UNCHANGED <<clock, currentAdmin, allOrders, modal>>

\* window.assignDelivery after its await: the store applies
\* {deliveryPartner, updatedAt} and the success toast is shown, or the write
\* fails and the catch block shows the error toast.
assignDeliveryDone(s) ==
    /\ OrdersFrame
    /\ inflight[s] # <<>>
    /\ Head(inflight[s]).kind = "delivery"
    /\ LET w == Head(inflight[s])
       IN \E ok \in BOOLEAN :
            /\ inflight' = [inflight EXCEPT ![s] = Tail(@)]
            /\ IF ok
               THEN /\ orders' = [orders EXCEPT ![w.orderId].deliveryPartner = w.partner,
                                                ![w.orderId].updatedAt = w.updatedAt]
                    /\ toast' = [toast EXCEPT ![s] = "success"]
               ELSE /\ toast' = [toast EXCEPT ![s] = "error"]
                    /\ UNCHANGED orders
    /\ UNCHANGED <<clock, currentAdmin, allOrders, modal>>

NextOrders ==
    \/ Tick
    \/ \E s \in Sessions : OnSnapshot(s)
    \/ \E s \in Sessions, o \in OrderIds : viewOrder(s, o)
    \/ \E s \in Sessions : closeOrderModal(s)
    \/ \E s \in Sessions, st \in Statuses : changeStatus(s, st)
    \/ \E s \in Sessions : changeStatusDone(s)
    \/ \E s \in Sessions, name \in DriverNames, phone \in DriverPhones :
         assignDelivery(s, name, phone)
    \/ \E s \in Sessions : assignDeliveryDone(s)

\* One admin session, and two orders in the store.
InitOneSession ==
    /\ orders = [o \in OrderIds |-> NewOrder]
    /\ clock = 0
    /\ currentAdmin = [s \in Sessions |-> [email |-> "ann@freshmart"]]
    /\ allOrders = [s \in Sessions |-> EmptyMirror]
    /\ modal = [s \in Sessions |-> ClosedModal]
    /\ inflight = [s \in Sessions |-> <<>>]
    /\ toast = [s \in Sessions |-> "none"]

NextOneSession ==
    \/ Tick
    \/ OnSnapshot("s1")
    \/ \E o \in OrderIds : viewOrder("s1", o)
    \/ closeOrderModal("s1")
    \/ \E st \in Statuses : changeStatus("s1", st)
    \/ changeStatusDone("s1")
    \/ \E name \in DriverNames, phone \in DriverPhones : assignDelivery("s1", name, phone)
    \/ assignDeliveryDone("s1")

(***************************************************************************)
(* Order lifecycle: the claims about changeStatus.                         *)
(***************************************************************************)
TerminalStatuses == {"delivered", "cancelled"}

\* The successor of a status in the forward chain, "" past its end.
ForwardNext(a) ==
    CASE a = "confirmed"        -> "packed"
      [] a = "packed"           -> "out_for_delivery"
      [] a = "out_for_delivery" -> "delivered"
      [] OTHER                  -> ""

\* The legal edges of the order state machine.
LegalTransition(a, b) ==
    \/ b = ForwardNext(a)
    \/ b = "cancelled" /\ a # "delivered" /\ a # "cancelled"

\* Position of a status in the forward chain (0 for cancelled).
ChainIndex(a) ==
    CASE a = "confirmed"        -> 1
      [] a = "packed"           -> 2
      [] a = "out_for_delivery" -> 3
      [] a = "delivered"        -> 4
      [] OTHER                  -> 0

\* The step in which session s's oldest awaited changeStatus completes.
Completes(s) ==
    /\ inflight[s] # <<>>
    /\ Head(inflight[s]).kind = "status"
    /\ inflight'[s] = Tail(inflight[s])

\* The completing call showed its success toast.
Succeeds(s) == Completes(s) /\ toast'[s] = "success"

\* C1: a changeStatus call from status a to status b succeeds if and only if
\* (a, b) is a legal edge (forward successor, or cancel from a non-terminal
\* status); every other pair, b = a included, is rejected and leaves the order
\* unchanged. (A legal change may still fail when the store refuses the write;
\* then too the order is unchanged.)
C1_TransitionIffLegal ==
    [][\A s \in Sessions :
         Completes(s) =>
           LET w == Head(inflight[s])
               a == orders[w.orderId].status
           IN /\ Succeeds(s) => LegalTransition(a, w.status)
              /\ ~LegalTransition(a, w.status) => orders'[w.orderId] = orders[w.orderId]
              /\ ~Succeeds(s) => orders' = orders]_vars

\* C2: once an order's stored status is delivered or cancelled no later
\* changeStatus changes it, and no stored status change skips a state of the
\* forward chain.
C2_TerminalAndNoSkip ==
    [][\A o \in DOMAIN orders :
         /\ orders[o].status \in TerminalStatuses
              => orders'[o].status = orders[o].status
         /\ (ChainIndex(orders[o].status) > 0 /\ ChainIndex(orders'[o].status) > 0)
              => ChainIndex(orders'[o].status) <= ChainIndex(orders[o].status) + 1]_vars

\* C10: statusHistory only grows at its end: a successful changeStatus appends
\* exactly one entry {status, timestamp, message, updatedBy: acting admin's
\* email} in the write that sets status and updatedAt, no step removes or
\* rewrites an entry, and after a successful change the order's status is the
\* status of the last entry.
C10_HistoryAppendOnly ==
    [][/\ \A o \in DOMAIN orders :
            /\ Len(orders'[o].statusHistory) >= Len(orders[o].statusHistory)
            /\ SubSeq(orders'[o].statusHistory, 1, Len(orders[o].statusHistory))
                 = orders[o].statusHistory
       /\ \A s \in Sessions :
            Succeeds(s) =>
              LET w == Head(inflight[s])
                  h == orders'[w.orderId].statusHistory
              IN /\ h = Append(orders[w.orderId].statusHistory,
                               [status    |-> w.status,
                                timestamp |-> w.updatedAt,
                                message   |-> <<"Order", formatStatus(w.status), "by admin">>,
                                updatedBy |-> currentAdmin[s].email])
                 /\ orders'[w.orderId].status = w.status
                 /\ orders'[w.orderId].updatedAt = w.updatedAt
                 /\ orders'[w.orderId].status = h[Len(h)].status]_vars

\* The step in which session s's oldest awaited assignDelivery completes.
AssignCompletes(s) ==
    /\ inflight[s] # <<>>
    /\ Head(inflight[s]).kind = "delivery"
    /\ inflight'[s] = Tail(inflight[s])

\* C11: a delivery partner is stored on an order only while the order's
\* stored status is packed or out_for_delivery; for an order stored as
\* confirmed, delivered or cancelled, also one whose status changed after the
\* modal was rendered, the assignment is not stored.
C11_AssignOnlyPackedOrOut ==
    [][\A o \in DOMAIN orders :
         orders'[o].deliveryPartner # orders[o].deliveryPartner
         => orders[o].status \in {"packed", "out_for_delivery"}]_vars

\* C12: the set of orders never shrinks; a completing changeStatus leaves
\* deliveryPartner and items of its order unchanged, a completing
\* assignDelivery leaves status, statusHistory and items of its order
\* unchanged, and both leave every other order unchanged.
C12_OrderFrame ==
    [][/\ DOMAIN orders' = DOMAIN orders
       /\ \A s \in Sessions :
            /\ Completes(s) =>
                 LET w == Head(inflight[s])
                 IN /\ orders'[w.orderId].deliveryPartner = orders[w.orderId].deliveryPartner
                    /\ orders'[w.orderId].items = orders[w.orderId].items
                    /\ \A o \in DOMAIN orders \ {w.orderId} : orders'[o] = orders[o]
            /\ AssignCompletes(s) =>
                 LET w == Head(inflight[s])
                 IN /\ orders'[w.orderId].status = orders[w.orderId].status
                    /\ orders'[w.orderId].statusHistory = orders[w.orderId].statusHistory
                    /\ orders'[w.orderId].items = orders[w.orderId].items
                    /\ \A o \in DOMAIN orders \ {w.orderId} : orders'[o] = orders[o]]_vars

C12_Witness ==
    /\ orders["o1"].status = "packed"
    /\ orders["o1"].deliveryPartner = [name |-> "dan", phone |-> "555"]
    /\ orders["o2"] = NewOrder

\* C13: the mirror changes only in a step that delivers a snapshot of the
\* store, so in no step of changeStatus or assignDelivery; and a changeStatus
\* that does not succeed shows the error toast and leaves the store, the
\* mirror and the modal as they were, while one that shows the success toast
\* has written its update.
C13_MirrorOnlyBySnapshot ==
    [][\A s \in Sessions :
         /\ allOrders'[s] # allOrders[s]
              => allOrders'[s] = orders /\ UNCHANGED <<orders, inflight, toast, modal>>
         /\ (Completes(s) /\ ~Succeeds(s))
              => /\ toast'[s] = "error"
                 /\ UNCHANGED <<orders, allOrders, modal>>
         /\ Succeeds(s)
              => LET w == Head(inflight[s])
                 IN /\ orders'[w.orderId].status = w.status
                    /\ allOrders' = allOrders]_vars

C13_Witness ==
    /\ toast["s1"] = "error"
    /\ allOrders["s1"] = orders
    /\ \A o \in DOMAIN orders : orders[o] = NewOrder


(***************************************************************************)
(* CLOUD FUNCTIONS (functions/index.js)                                    *)
(*                                                                         *)
(* A call occupies a slot of `calls`. Its frame's pc names the remote call *)
(* the handler is awaiting; every await is one step, which the remote      *)
(* service may fail. A completed frame keeps the call's inputs and result  *)
(* until the slot is used again; `thrown` keeps the HttpsError a handler   *)
(* threw inside its own try block, which its catch block then replaces.    *)
(***************************************************************************)
MaxUid == 2         \* uids the identity provider can issue: 1..MaxUid

Uids      == 1..MaxUid
CallSlots == {"c1", "c2"}

UserStatuses == {"active", "inactive", "suspended", "pending"}

\* Firebase Auth records. A uid is never issued twice.
Unused  == [exists |-> FALSE, used |-> FALSE, role |-> "none", disabled |-> FALSE]
Deleted == [exists |-> FALSE, used |-> TRUE,  role |-> "none", disabled |-> FALSE]
Identity(role, disabled) ==
    [exists |-> TRUE, used |-> TRUE, role |-> role, disabled |-> disabled]

\* Firestore documents of `admins` and `users`.
NoDoc == [exists |-> FALSE, role |-> "", disabled |-> FALSE, status |-> ""]
AdminDoc(role, disabled) ==
    [exists |-> TRUE, role |-> role, disabled |-> disabled, status |-> ""]
UserDoc(status) ==
    [exists |-> TRUE, role |-> "", disabled |-> FALSE, status |-> status]

\* context.auth of a call: absent, or the caller's uid and token claims.
NoAuth == [present |-> FALSE, uid |-> 0, role |-> "none"]
Token(u) == [present |-> TRUE, uid |-> u, role |-> authUsers[u].role]

\* Every context.auth there can be.
Tokens ==
    {NoAuth} \cup {[present |-> TRUE, uid |-> u, role |-> r] :
                      u \in Uids, r \in {"none", "user", "admin", "super_admin"}}

\* Who can call: nobody signed in, or an identity that can sign in.
Callers ==
    {NoAuth} \cup {Token(u) : u \in {v \in Uids : authUsers[v].exists /\ ~authUsers[v].disabled}}

\* The `data` argument of a call; a handler reads only its own fields.
\*   id: adminId / userId (0: missing)      role, status: "" when undefined
\*   name, email: given and non-empty       pwLen: password length (0: missing)
\*   term: length of searchTerm             page: sent by the users page's form
\*   key: secretKey is the configured key
NoData ==
    [id |-> 0, role |-> "", status |-> "", disable |-> FALSE, name |-> FALSE,
     email |-> FALSE, pwLen |-> 0, term |-> 0, page |-> FALSE, key |-> FALSE]

\* A call's frame. `thrown` is the last error raised in deleteAdmin / deleteUser
\* (an HttpsError code, an identity-provider code, or "error" for any other
\* failure of a remote step), before the catch block rewrites it; `changed` says that an identity-provider write
\* of this call has taken effect.
IdleCall ==
    [pc |-> "idle", op |-> "", auth |-> NoAuth, data |-> NoData, result |-> "", uid |-> 0,
     thrown |-> "", changed |-> FALSE]

Errors == {"unauthenticated", "permission-denied", "invalid-argument", "already-exists",
           "failed-precondition", "not-found", "internal", "form-error", "page-error"}

\* verifySuperAdmin: "ok", or the HttpsError code it throws.
verifySuperAdmin(auth) ==
    IF ~auth.present THEN "unauthenticated"
    ELSE IF auth.role # "super_admin" THEN "permission-denied"
    ELSE "ok"

\* verifyAdmin: "ok", or the HttpsError code it throws.
verifyAdmin(auth) ==
    IF ~auth.present THEN "unauthenticated"
    ELSE IF auth.role # "super_admin" /\ auth.role # "admin" THEN "permission-denied"
    ELSE "ok"

\* The handlers whose first statement is `await verifySuperAdmin(context)`;
\* every other handler modelled here starts with `await verifyAdmin(context)`.
SuperAdminHandlers ==
    {"createAdmin", "toggleAdminStatus", "deleteAdmin", "getAdmins", "generateAdminReport"}
AdminHandlers ==
    {"createUser", "updateUser", "updateUserStatus", "deleteUser", "getUsers",
     "searchUsers", "generateUserReport", "getDashboardStats"}
QueryHandlers ==
    {"getAdmins", "generateAdminReport", "getUsers", "searchUsers",
     "generateUserReport", "getDashboardStats"}

\* A faulty gate, for testing C6: every handler behind verifyAdmin.
Gate_verifyAdminOnly(op, auth) == verifyAdmin(auth)

\* The role gate a handler runs before anything else.
Gate(op, auth) ==
    IF op \in SuperAdminHandlers THEN verifySuperAdmin(auth) ELSE verifyAdmin(auth)

\* The synchronous prefix of each handler (gate, then argument validation):
\* the error it throws, or the first remote call it awaits.
createAdminChecks(auth, data) ==
    IF Gate("createAdmin", auth) # "ok" THEN Gate("createAdmin", auth)
    ELSE IF ~data.email \/ data.pwLen = 0 THEN "invalid-argument"
    ELSE IF data.pwLen < 8 THEN "invalid-argument"
    ELSE IF data.role \notin {"admin", "super_admin"} THEN "invalid-argument"
    ELSE "auth.createUser"

\* A faulty prefix, for testing C5: the test adminId === context.auth.uid left out.
toggleAdminStatusChecks_noSelfTest(auth, data) ==
    IF verifySuperAdmin(auth) # "ok" THEN verifySuperAdmin(auth)
    ELSE IF data.id = 0 THEN "invalid-argument"
    ELSE "auth.updateUser"

toggleAdminStatusChecks(auth, data) ==
    IF Gate("toggleAdminStatus", auth) # "ok" THEN Gate("toggleAdminStatus", auth)
    ELSE IF data.id = 0 THEN "invalid-argument"
    ELSE IF data.id = auth.uid THEN "invalid-argument"
    ELSE "auth.updateUser"

deleteAdminChecks(auth, data) ==
    IF Gate("deleteAdmin", auth) # "ok" THEN Gate("deleteAdmin", auth)
    ELSE IF data.id = 0 THEN "invalid-argument"
    ELSE IF data.id = auth.uid THEN "invalid-argument"
    ELSE "db.get"

\* A faulty prefix, for testing C15: the password length test left out.
createUserChecks_noLengthTest(auth, data) ==
    IF verifyAdmin(auth) # "ok" THEN verifyAdmin(auth)
    ELSE IF ~data.email \/ data.pwLen = 0 \/ ~data.name THEN "invalid-argument"
    ELSE "auth.createUser"

createUserChecks(auth, data) ==
    IF Gate("createUser", auth) # "ok" THEN Gate("createUser", auth)
    ELSE IF ~data.email \/ data.pwLen = 0 \/ ~data.name THEN "invalid-argument"
    ELSE IF data.pwLen < 6 THEN "invalid-argument"
    ELSE "auth.createUser"

updateUserChecks(auth, data) ==
    IF Gate("updateUser", auth) # "ok" THEN Gate("updateUser", auth)
    ELSE IF data.id = 0 THEN "invalid-argument"
    ELSE IF data.name THEN "auth.updateUser"
    ELSE "db.update"

updateUserStatusChecks(auth, data) ==
    IF Gate("updateUserStatus", auth) # "ok" THEN Gate("updateUserStatus", auth)
    ELSE IF data.id = 0 \/ data.status = "" THEN "invalid-argument"
    ELSE IF data.status \notin UserStatuses THEN "invalid-argument"
    ELSE "auth.updateUser"

deleteUserChecks(auth, data) ==
    IF Gate("deleteUser", auth) # "ok" THEN Gate("deleteUser", auth)
    ELSE IF data.id = 0 THEN "invalid-argument"
    ELSE "auth.deleteUser"

queryChecks(op, auth, data) ==
    IF Gate(op, auth) # "ok" THEN Gate(op, auth)
    ELSE IF op = "searchUsers" /\ data.term < 2 THEN "invalid-argument"
    ELSE "db.query"

\* A faulty catch block, for testing C17: every error rethrown as `internal`.
deleteCatch_rethrowAll(code) == "internal"

\* The catch block of deleteAdmin / deleteUser: a missing identity goes on to
\* delete the document, every other error is rethrown as `internal`.
deleteCatch(code) ==
    IF code = "auth/user-not-found" THEN "catch.db.delete" ELSE "internal"

\* How a call ends. The users page awaits updateUser and deleteUser inside a
\* try block whose catch falls back to a direct document write
\* (handleFormSubmit, confirmDelete).
Finish(frame, result) ==
    IF frame.data.page /\ frame.op = "updateUser" /\ result # "success"
    THEN [frame EXCEPT !.pc = "page.updateDoc", !.result = result]
    ELSE IF frame.data.page /\ frame.op = "deleteUser" /\ result # "success"
    THEN [frame EXCEPT !.pc = "page.deleteDoc", !.result = result]
    ELSE [frame EXCEPT !.pc = "done", !.result = result]

\* A call arrives: the handler runs up to its first await.
Begin(op, auth, data, verdict) ==
    LET frame == [pc |-> verdict, op |-> op, auth |-> auth, data |-> data,
                  result |-> "", uid |-> 0, thrown |-> "", changed |-> FALSE]
    IN IF verdict \in Errors THEN Finish(frame, verdict) ELSE frame

Free(c) == calls[c].pc \in {"idle", "done"}
At(c, op, pc) == calls[c].op = op /\ calls[c].pc = pc

FreshUids == {u \in Uids : ~authUsers[u].used}
FreshUid  == CHOOSE u \in FreshUids : \A v \in FreshUids : u <= v

\* The Cloud Functions touch neither the orders page's state nor auth.js's.
FnFrame == UNCHANGED <<orders, clock, currentAdmin, allOrders, modal, inflight, toast,
                       signedIn, guard, initCalls, login, remote, view,
                       table, api, dash>>

InitFn ==
    /\ authUsers = [u \in Uids |-> IF u = 1 THEN Identity("super_admin", FALSE) ELSE Unused]
    /\ admins = [u \in Uids |-> IF u = 1 THEN AdminDoc("super_admin", FALSE) ELSE NoDoc]
    /\ users = [u \in Uids |-> NoDoc]
    /\ calls = [c \in CallSlots |-> IdleCall]

\* ---- exports.createAdmin -------------------------------------------------
createAdmin(c, auth, data) ==
    /\ FnFrame
    /\ Free(c)
    /\ auth \in Callers
    /\ calls' = [calls EXCEPT ![c] =
                    Begin("createAdmin", auth, data, createAdminChecks(auth, data))]
    /\ UNCHANGED <<authUsers, admins, users>>

\* auth.createUser: a new identity with no claims, or email-already-exists, or
\* another failure. (Addresses are not modelled: whether the address is taken
\* is the identity provider's answer.)
createAdmin_createUser(c) ==
    /\ FnFrame
    /\ At(c, "createAdmin", "auth.createUser")
    /\ \E outcome \in {"ok", "auth/email-already-exists", "error"} :
         IF outcome = "ok"
         THEN /\ FreshUids # {}
              /\ authUsers' = [authUsers EXCEPT ![FreshUid] = Identity("none", FALSE)]
              /\ calls' = [calls EXCEPT ![c].pc = "auth.setCustomUserClaims",
                                        ![c].uid = FreshUid,
                                        ![c].changed = TRUE]
         ELSE /\ calls' = [calls EXCEPT ![c] = Finish(@,
                    IF outcome = "auth/email-already-exists"
                    THEN "already-exists" ELSE "internal")]
              /\ UNCHANGED authUsers
    /\ UNCHANGED <<admins, users>>

createAdmin_setClaims(c) ==
    /\ FnFrame
    /\ At(c, "createAdmin", "auth.setCustomUserClaims")
    /\ \E ok \in BOOLEAN :
         IF ok /\ authUsers[calls[c].uid].exists
         THEN /\ authUsers' = [authUsers EXCEPT ![calls[c].uid].role = calls[c].data.role]
              /\ calls' = [calls EXCEPT ![c].pc = "db.set"]
         ELSE /\ calls' = [calls EXCEPT ![c] = Finish(@, "internal")]
              /\ UNCHANGED authUsers
    /\ UNCHANGED <<admins, users>>

createAdmin_setDoc(c) ==
    /\ FnFrame
    /\ At(c, "createAdmin", "db.set")
    /\ \E ok \in BOOLEAN :
         IF ok
         THEN /\ admins' = [admins EXCEPT ![calls[c].uid] =
                               AdminDoc(calls[c].data.role, FALSE)]
              /\ calls' = [calls EXCEPT ![c] = Finish(@, "success")]
         ELSE /\ calls' = [calls EXCEPT ![c] = Finish(@, "internal")]
              /\ UNCHANGED admins
    /\ UNCHANGED <<authUsers, users>>

\* ---- exports.toggleAdminStatus -------------------------------------------
toggleAdminStatus(c, auth, data) ==
    /\ FnFrame
    /\ Free(c)
    /\ auth \in Callers
    /\ calls' = [calls EXCEPT ![c] =
            Begin("toggleAdminStatus", auth, data, toggleAdminStatusChecks(auth, data))]
    /\ UNCHANGED <<authUsers, admins, users>>

\* auth.updateUser(adminId, {disabled: disable})
toggleAdminStatus_authUpdate(c) ==
    /\ FnFrame
    /\ At(c, "toggleAdminStatus", "auth.updateUser")
    /\ \E ok \in BOOLEAN :
         IF ok /\ authUsers[calls[c].data.id].exists
         THEN /\ authUsers' = [authUsers EXCEPT
                                 ![calls[c].data.id].disabled = calls[c].data.disable]
              /\ calls' = [calls EXCEPT ![c].pc = "db.update",
                    ![c].changed = (authUsers[calls[c].data.id].disabled
                                        # calls[c].data.disable)]
         ELSE /\ calls' = [calls EXCEPT ![c] = Finish(@, "internal")]
              /\ UNCHANGED authUsers
    /\ UNCHANGED <<admins, users>>

\* db.collection('admins').doc(adminId).update({disabled: disable, ...})
toggleAdminStatus_docUpdate(c) ==
    /\ FnFrame
    /\ At(c, "toggleAdminStatus", "db.update")
    /\ \E ok \in BOOLEAN :
         IF ok /\ admins[calls[c].data.id].exists
         THEN /\ admins' = [admins EXCEPT
                               ![calls[c].data.id].disabled = calls[c].data.disable]
              /\ calls' = [calls EXCEPT ![c] = Finish(@, "success")]
         ELSE /\ calls' = [calls EXCEPT ![c] = Finish(@, "internal")]
              /\ UNCHANGED admins
    /\ UNCHANGED <<authUsers, users>>

\* ---- exports.deleteAdmin -------------------------------------------------
deleteAdmin(c, auth, data) ==
    /\ FnFrame
    /\ Free(c)
    /\ auth \in Callers
    /\ calls' = [calls EXCEPT ![c] =
                    Begin("deleteAdmin", auth, data, deleteAdminChecks(auth, data))]
    /\ UNCHANGED <<authUsers, admins, users>>

\* The admins documents the query role == super_admin, disabled == false returns.
ActiveSuperAdmins ==
    {u \in Uids : admins[u].exists /\ admins[u].role = "super_admin" /\ ~admins[u].disabled}

\* adminDoc = await ...doc(adminId).get(), and the test on its role
deleteAdmin_getDoc(c) ==
    /\ FnFrame
    /\ At(c, "deleteAdmin", "db.get")
    /\ \E ok \in BOOLEAN :
         calls' = [calls EXCEPT ![c] =
            IF ~ok THEN Finish([@ EXCEPT !.thrown = "error"], deleteCatch("error"))
            ELSE IF admins[calls[c].data.id].exists
                    /\ admins[calls[c].data.id].role = "super_admin"
                 THEN [@ EXCEPT !.pc = "db.count"]
                 ELSE [@ EXCEPT !.pc = "auth.deleteUser"]]
    /\ UNCHANGED <<authUsers, admins, users>>

\* superAdmins = await ...get(), and `if (superAdmins.size <= 1) throw
\* HttpsError('failed-precondition')`, thrown inside the try block
deleteAdmin_count(c) ==
    /\ FnFrame
    /\ At(c, "deleteAdmin", "db.count")
    /\ \E ok \in BOOLEAN :
         calls' = [calls EXCEPT ![c] =
            IF ~ok THEN Finish([@ EXCEPT !.thrown = "error"], deleteCatch("error"))
            ELSE IF Cardinality(ActiveSuperAdmins) <= 1
                 THEN Finish([@ EXCEPT !.thrown = "failed-precondition"],
                             deleteCatch("failed-precondition"))
                 ELSE [@ EXCEPT !.pc = "auth.deleteUser"]]
    /\ UNCHANGED <<authUsers, admins, users>>

\* auth.deleteUser(adminId)
deleteAdmin_authDelete(c) ==
    /\ FnFrame
    /\ At(c, "deleteAdmin", "auth.deleteUser")
    /\ \E outcome \in {"ok", "auth/user-not-found", "error"} :
         /\ outcome = "ok" => authUsers[calls[c].data.id].exists
         /\ outcome = "auth/user-not-found" => ~authUsers[calls[c].data.id].exists
         /\ IF outcome = "ok"
            THEN /\ authUsers' = [authUsers EXCEPT ![calls[c].data.id] = Deleted]
                 /\ calls' = [calls EXCEPT ![c].pc = "db.delete", ![c].changed = TRUE]
            ELSE /\ UNCHANGED authUsers
                 /\ calls' = [calls EXCEPT ![c] =
                        IF deleteCatch(outcome) = "internal"
                        THEN Finish([@ EXCEPT !.thrown = outcome], "internal")
                        ELSE [@ EXCEPT !.pc = deleteCatch(outcome), !.thrown = outcome]]
    /\ UNCHANGED <<admins, users>>

\* db.collection('admins').doc(adminId).delete(), in the try block or in the
\* catch block's user-not-found branch; a failure in either ends as internal
deleteAdmin_docDelete(c) ==
    /\ FnFrame
    /\ At(c, "deleteAdmin", "db.delete") \/ At(c, "deleteAdmin", "catch.db.delete")
    /\ \E ok \in BOOLEAN :
         IF ok
         THEN /\ admins' = [admins EXCEPT ![calls[c].data.id] = NoDoc]
              /\ calls' = [calls EXCEPT ![c] = Finish(@, "success")]
         ELSE /\ calls' = [calls EXCEPT ![c] =
                    Finish([@ EXCEPT !.thrown = "error"], "internal")]
              /\ UNCHANGED admins
    /\ UNCHANGED <<authUsers, users>>

\* ---- getAdmins, generateAdminReport, getUsers, searchUsers,
\* ---- generateUserReport, getDashboardStats: gate, then read-only queries
queryHandler(c, op, auth, data) ==
    /\ FnFrame
    /\ Free(c)
    /\ auth \in Callers
    /\ op \in QueryHandlers
    /\ calls' = [calls EXCEPT ![c] = Begin(op, auth, data, queryChecks(op, auth, data))]
    /\ UNCHANGED <<authUsers, admins, users>>

queryHandler_query(c) ==
    /\ FnFrame
    /\ calls[c].pc = "db.query"
    /\ \E ok \in BOOLEAN :
         calls' = [calls EXCEPT ![c] = Finish(@, IF ok THEN "success" ELSE "internal")]
    /\ UNCHANGED <<authUsers, admins, users>>

\* ---- exports.createUser --------------------------------------------------
createUser(c, auth, data) ==
    /\ FnFrame
    /\ Free(c)
    /\ auth \in Callers
    /\ calls' = [calls EXCEPT ![c] =
                    Begin("createUser", auth, data, createUserChecks(auth, data))]
    /\ UNCHANGED <<authUsers, admins, users>>

createUser_createUser(c) ==
    /\ FnFrame
    /\ At(c, "createUser", "auth.createUser")
    /\ \E outcome \in {"ok", "auth/email-already-exists", "error"} :
         IF outcome = "ok"
         THEN /\ FreshUids # {}
              /\ authUsers' = [authUsers EXCEPT ![FreshUid] = Identity("none", FALSE)]
              /\ calls' = [calls EXCEPT ![c].pc = "auth.setCustomUserClaims",
                                        ![c].uid = FreshUid,
                                        ![c].changed = TRUE]
         ELSE /\ calls' = [calls EXCEPT ![c] = Finish(@,
                    IF outcome = "auth/email-already-exists"
                    THEN "already-exists" ELSE "internal")]
              /\ UNCHANGED authUsers
    /\ UNCHANGED <<admins, users>>

\* A faulty claim write, for testing C28: the role admin.
createUser_setClaims_admin(c) ==
    /\ FnFrame
    /\ At(c, "createUser", "auth.setCustomUserClaims")
    /\ \E ok \in BOOLEAN :
         IF ok /\ authUsers[calls[c].uid].exists
         THEN /\ authUsers' = [authUsers EXCEPT ![calls[c].uid].role = "admin"]
              /\ calls' = [calls EXCEPT ![c].pc = "db.set"]
         ELSE /\ calls' = [calls EXCEPT ![c] = Finish(@, "internal")]
              /\ UNCHANGED authUsers
    /\ UNCHANGED <<admins, users>>

\* auth.setCustomUserClaims(uid, {role: 'user'})
createUser_setClaims(c) ==
    /\ FnFrame
    /\ At(c, "createUser", "auth.setCustomUserClaims")
    /\ \E ok \in BOOLEAN :
         IF ok /\ authUsers[calls[c].uid].exists
         THEN /\ authUsers' = [authUsers EXCEPT ![calls[c].uid].role = "user"]
              /\ calls' = [calls EXCEPT ![c].pc = "db.set"]
         ELSE /\ calls' = [calls EXCEPT ![c] = Finish(@, "internal")]
              /\ UNCHANGED authUsers
    /\ UNCHANGED <<admins, users>>

\* db.collection('users').doc(uid).set({..., status: status || 'active'})
createUser_setDoc(c) ==
    /\ FnFrame
    /\ At(c, "createUser", "db.set")
    /\ \E ok \in BOOLEAN :
         IF ok
         THEN /\ users' = [users EXCEPT ![calls[c].uid] =
                    UserDoc(IF calls[c].data.status = "" THEN "active"
                            ELSE calls[c].data.status)]
              /\ calls' = [calls EXCEPT ![c] = Finish(@, "success")]
         ELSE /\ calls' = [calls EXCEPT ![c] = Finish(@, "internal")]
              /\ UNCHANGED users
    /\ UNCHANGED <<authUsers, admins>>

\* ---- exports.updateUser --------------------------------------------------
updateUser(c, auth, data) ==
    /\ FnFrame
    /\ Free(c)
    /\ auth \in Callers
    /\ calls' = [calls EXCEPT ![c] =
                    Begin("updateUser", auth, data, updateUserChecks(auth, data))]
    /\ UNCHANGED <<authUsers, admins, users>>

\* if (name) await auth.updateUser(userId, {displayName: name})
updateUser_authUpdate(c) ==
    /\ FnFrame
    /\ At(c, "updateUser", "auth.updateUser")
    /\ \E ok \in BOOLEAN :
         calls' = [calls EXCEPT ![c] =
            IF ok /\ authUsers[calls[c].data.id].exists
            THEN [@ EXCEPT !.pc = "db.update"]
            ELSE Finish(@, "internal")]
    /\ UNCHANGED <<authUsers, admins, users>>

\* db.collection('users').doc(userId).update(updateData); updateData carries
\* status only when the call gave one
updateUser_docUpdate(c) ==
    /\ FnFrame
    /\ At(c, "updateUser", "db.update")
    /\ \E ok \in BOOLEAN :
         IF ok /\ users[calls[c].data.id].exists
         THEN /\ users' = [users EXCEPT ![calls[c].data.id].status =
                    IF calls[c].data.status = "" THEN @ ELSE calls[c].data.status]
              /\ calls' = [calls EXCEPT ![c] = Finish(@, "success")]
         ELSE /\ calls' = [calls EXCEPT ![c] = Finish(@, "internal")]
              /\ UNCHANGED users
    /\ UNCHANGED <<authUsers, admins>>

\* ---- exports.updateUserStatus --------------------------------------------
updateUserStatus(c, auth, data) ==
    /\ FnFrame
    /\ Free(c)
    /\ auth \in Callers
    /\ calls' = [calls EXCEPT ![c] =
            Begin("updateUserStatus", auth, data, updateUserStatusChecks(auth, data))]
    /\ UNCHANGED <<authUsers, admins, users>>

shouldDisable(status) == status = "suspended" \/ status = "inactive"

\* auth.updateUser(userId, {disabled: shouldDisable})
updateUserStatus_authUpdate(c) ==
    /\ FnFrame
    /\ At(c, "updateUserStatus", "auth.updateUser")
    /\ \E ok \in BOOLEAN :
         IF ok /\ authUsers[calls[c].data.id].exists
         THEN /\ authUsers' = [authUsers EXCEPT
                    ![calls[c].data.id].disabled = shouldDisable(calls[c].data.status)]
              /\ calls' = [calls EXCEPT ![c].pc = "db.update",
                    ![c].changed = (authUsers[calls[c].data.id].disabled
                                        # shouldDisable(calls[c].data.status))]
         ELSE /\ calls' = [calls EXCEPT ![c] = Finish(@, "internal")]
              /\ UNCHANGED authUsers
    /\ UNCHANGED <<admins, users>>

updateUserStatus_docUpdate(c) ==
    /\ FnFrame
    /\ At(c, "updateUserStatus", "db.update")
    /\ \E ok \in BOOLEAN :
         IF ok /\ users[calls[c].data.id].exists
         THEN /\ users' = [users EXCEPT ![calls[c].data.id].status = calls[c].data.status]
              /\ calls' = [calls EXCEPT ![c] = Finish(@, "success")]
         ELSE /\ calls' = [calls EXCEPT ![c] = Finish(@, "internal")]
              /\ UNCHANGED users
    /\ UNCHANGED <<authUsers, admins>>

\* ---- exports.deleteUser --------------------------------------------------
deleteUser(c, auth, data) ==
    /\ FnFrame
    /\ Free(c)
    /\ auth \in Callers
    /\ calls' = [calls EXCEPT ![c] =
                    Begin("deleteUser", auth, data, deleteUserChecks(auth, data))]
    /\ UNCHANGED <<authUsers, admins, users>>

deleteUser_authDelete(c) ==
    /\ FnFrame
    /\ At(c, "deleteUser", "auth.deleteUser")
    /\ \E outcome \in {"ok", "auth/user-not-found", "error"} :
         /\ outcome = "ok" => authUsers[calls[c].data.id].exists
         /\ outcome = "auth/user-not-found" => ~authUsers[calls[c].data.id].exists
         /\ IF outcome = "ok"
            THEN /\ authUsers' = [authUsers EXCEPT ![calls[c].data.id] = Deleted]
                 /\ calls' = [calls EXCEPT ![c].pc = "db.delete", ![c].changed = TRUE]
            ELSE /\ UNCHANGED authUsers
                 /\ calls' = [calls EXCEPT ![c] =
                        IF deleteCatch(outcome) = "internal"
                        THEN Finish([@ EXCEPT !.thrown = outcome], "internal")
                        ELSE [@ EXCEPT !.pc = deleteCatch(outcome), !.thrown = outcome]]
    /\ UNCHANGED <<admins, users>>

deleteUser_docDelete(c) ==
    /\ FnFrame
    /\ At(c, "deleteUser", "db.delete") \/ At(c, "deleteUser", "catch.db.delete")
    /\ \E ok \in BOOLEAN :
         IF ok
         THEN /\ users' = [users EXCEPT ![calls[c].data.id] = NoDoc]
              /\ calls' = [calls EXCEPT ![c] = Finish(@, "success")]
         ELSE /\ calls' = [calls EXCEPT ![c] =
                    Finish([@ EXCEPT !.thrown = "error"], "internal")]
              /\ UNCHANGED users
    /\ UNCHANGED <<authUsers, admins>>

\* ---- users page (src/unnamed/part_004): handleFormSubmit -----------------
\* The form's validation, then createUserFn / updateUserFn with the signed-in
\* admin's token, or the direct update when updateUserFn is not set.
handleFormSubmit(c, auth, form, fnAvailable) ==
    /\ FnFrame
    /\ Free(c)
    /\ auth \in Callers
    /\ auth.role \in {"admin", "super_admin"}
    /\ LET data == [NoData EXCEPT !.id = form.id, !.name = form.name,
                                  !.email = form.email, !.status = form.status,
                                  !.pwLen = form.pwLen, !.page = TRUE]
           frame == [pc |-> "page.updateDoc", op |-> "handleFormSubmit", auth |-> auth,
                     data |-> data, result |-> "", uid |-> 0, thrown |-> "", changed |-> FALSE]
       IN calls' = [calls EXCEPT ![c] =
            IF ~form.name \/ ~form.email
            THEN [frame EXCEPT !.pc = "done", !.result = "form-error"]
            ELSE IF form.id = 0 /\ form.pwLen < 6
            THEN [frame EXCEPT !.pc = "done", !.result = "form-error"]
            ELSE IF form.id # 0
            THEN (IF fnAvailable
                  THEN Begin("updateUser", auth, data, updateUserChecks(auth, data))
                  ELSE frame)
            ELSE (IF fnAvailable
                  THEN Begin("createUser", auth, data, createUserChecks(auth, data))
                  ELSE [frame EXCEPT !.pc = "done", !.result = "form-error"])]
    /\ UNCHANGED <<authUsers, admins, users>>

\* updateDoc(doc(db, 'users', userId), {name, phone, status, updatedAt}): the
\* catch (fnError) fallback, or the branch taken when updateUserFn is not set
handleFormSubmit_updateDoc(c) ==
    /\ FnFrame
    /\ calls[c].pc = "page.updateDoc"
    /\ \E ok \in BOOLEAN :
         IF ok /\ users[calls[c].data.id].exists
         THEN /\ users' = [users EXCEPT ![calls[c].data.id].status = calls[c].data.status]
              /\ calls' = [calls EXCEPT ![c].pc = "done", ![c].result = "success"]
         ELSE /\ calls' = [calls EXCEPT ![c].pc = "done", ![c].result = "page-error"]
              /\ UNCHANGED users
    /\ UNCHANGED <<authUsers, admins>>

\* ---- users page (src/unnamed/part_004): confirmDelete --------------------
\* deleteUserFn({userId: deleteUserId}) with the signed-in admin's token, or
\* the direct delete when deleteUserFn is not set. deleteUserId is the id of a
\* listed user.
confirmDelete(c, auth, deleteUserId, fnAvailable) ==
    /\ FnFrame
    /\ Free(c)
    /\ auth \in Callers
    /\ auth.role \in {"admin", "super_admin"}
    /\ deleteUserId # 0
    /\ LET data == [NoData EXCEPT !.id = deleteUserId, !.page = TRUE]
           frame == [pc |-> "page.deleteDoc", op |-> "confirmDelete", auth |-> auth,
                     data |-> data, result |-> "", uid |-> 0, thrown |-> "",
                     changed |-> FALSE]
       IN calls' = [calls EXCEPT ![c] =
            IF fnAvailable
            THEN Begin("deleteUser", auth, data, deleteUserChecks(auth, data))
            ELSE frame]
    /\ UNCHANGED <<authUsers, admins, users>>

\* deleteDoc(doc(db, 'users', deleteUserId)): the catch (fnError) fallback, or
\* the branch taken when deleteUserFn is not set; then the success toast, or
\* the outer catch's error toast
confirmDelete_deleteDoc(c) ==
    /\ FnFrame
    /\ calls[c].pc = "page.deleteDoc"
    /\ \E ok \in BOOLEAN :
         IF ok
         THEN /\ users' = [users EXCEPT ![calls[c].data.id] = NoDoc]
              /\ calls' = [calls EXCEPT ![c].pc = "done", ![c].result = "success"]
         ELSE /\ calls' = [calls EXCEPT ![c].pc = "done", ![c].result = "page-error"]
              /\ UNCHANGED users
    /\ UNCHANGED <<authUsers, admins>>

\* The frames the page itself opens, when it has no callable to call.
PageOps == {"handleFormSubmit", "confirmDelete"}

(***************************************************************************)
(* The calls a client can make, with the arguments drawn from small sets.  *)
(***************************************************************************)
Good == [NoData EXCEPT !.name = TRUE, !.email = TRUE, !.pwLen = 8]

createAdminInputs ==
    {[Good EXCEPT !.role = r] : r \in {"admin", "super_admin", "user"}}
        \cup {[Good EXCEPT !.role = "admin", !.email = FALSE],
              [Good EXCEPT !.role = "admin", !.pwLen = 0],
              [Good EXCEPT !.role = "admin", !.pwLen = 7]}

toggleAdminStatusInputs ==
    {[NoData EXCEPT !.id = id, !.disable = d] : id \in 0..MaxUid, d \in BOOLEAN}

deleteInputs == {[NoData EXCEPT !.id = id] : id \in 0..MaxUid}

AdminSteps(c) ==
    \/ createAdmin_createUser(c)
    \/ createAdmin_setClaims(c)
    \/ createAdmin_setDoc(c)
    \/ toggleAdminStatus_authUpdate(c)
    \/ toggleAdminStatus_docUpdate(c)
    \/ deleteAdmin_getDoc(c)
    \/ deleteAdmin_count(c)
    \/ deleteAdmin_authDelete(c)
    \/ deleteAdmin_docDelete(c)

createUserInputs ==
    {[Good EXCEPT !.status = s] : s \in UserStatuses \cup {""}}
        \cup {[Good EXCEPT !.name = FALSE], [Good EXCEPT !.email = FALSE],
              [Good EXCEPT !.pwLen = 0], [Good EXCEPT !.pwLen = 5]}

updateUserInputs ==
    {[NoData EXCEPT !.id = id, !.name = n, !.status = s] :
        id \in Uids, n \in BOOLEAN, s \in UserStatuses \cup {""}}
        \cup {[NoData EXCEPT !.status = "active"]}

updateUserStatusInputs ==
    {[NoData EXCEPT !.id = id, !.status = s] :
        id \in Uids, s \in UserStatuses \cup {"", "blocked"}}
        \cup {[NoData EXCEPT !.status = "active"]}

\* What the user form can hold at submit: the id of the user being edited (0
\* for a new user), the fields, a status from the form's select.
FormInputs ==
    {[Good EXCEPT !.id = id, !.status = s] : id \in 0..MaxUid, s \in UserStatuses}
        \cup {[Good EXCEPT !.name = FALSE, !.status = "active"],
              [Good EXCEPT !.email = FALSE, !.status = "active"],
              [Good EXCEPT !.pwLen = 5, !.status = "active"]}

UserSteps(c) ==
    \/ createUser_createUser(c)
    \/ createUser_setClaims(c)
    \/ createUser_setDoc(c)
    \/ updateUser_authUpdate(c)
    \/ updateUser_docUpdate(c)
    \/ updateUserStatus_authUpdate(c)
    \/ updateUserStatus_docUpdate(c)
    \/ deleteUser_authDelete(c)
    \/ deleteUser_docDelete(c)
    \/ handleFormSubmit_updateDoc(c)
    \/ confirmDelete_deleteDoc(c)

queryInputs == {[NoData EXCEPT !.term = n] : n \in {1, 2}}

AdminCalls(c, auths) ==
    \/ \E auth \in auths, data \in createAdminInputs : createAdmin(c, auth, data)
    \/ \E auth \in auths, data \in toggleAdminStatusInputs :
         toggleAdminStatus(c, auth, data)
    \/ \E auth \in auths, data \in deleteInputs : deleteAdmin(c, auth, data)

UserCalls(c, auths) ==
    \/ \E auth \in auths, data \in createUserInputs : createUser(c, auth, data)
    \/ \E auth \in auths, data \in updateUserInputs : updateUser(c, auth, data)
    \/ \E auth \in auths, data \in updateUserStatusInputs :
         updateUserStatus(c, auth, data)
    \/ \E auth \in auths, data \in deleteInputs : deleteUser(c, auth, data)
    \/ \E auth \in auths, form \in FormInputs, fnAvailable \in BOOLEAN :
         handleFormSubmit(c, auth, form, fnAvailable)
    \/ \E auth \in auths, deleteUserId \in Uids, fnAvailable \in BOOLEAN :
         confirmDelete(c, auth, deleteUserId, fnAvailable)

QueryCalls(c, auths) ==
    \/ \E auth \in auths, op \in QueryHandlers, data \in queryInputs :
         queryHandler(c, op, auth, data)
    \/ queryHandler_query(c)

\* Every callable, one call at a time.
NextFn ==
    \/ AdminCalls("c1", Tokens)
    \/ AdminSteps("c1")
    \/ UserCalls("c1", Tokens)
    \/ UserSteps("c1")
    \/ QueryCalls("c1", Tokens)

\* The admin-management callables, two calls at a time, each made by a caller
\* whose token carries the super_admin role.
SuperAdminTokens == {a \in Tokens : a.role = "super_admin"}

NextAdminRace ==
    \E c \in CallSlots :
        \/ AdminCalls(c, SuperAdminTokens)
        \/ AdminSteps(c)

\* The user-management callables and the users page, one call at a time.
NextUsers ==
    \/ UserCalls("c1", Tokens)
    \/ UserSteps("c1")

\* ---- exports.setupInitialSuperAdmin ---------------------------------------
\* No role gate: context is not read.  data.key says whether secretKey is the
\* configured key; data.id is userId.
setupInitialSuperAdmin(c, auth, data) ==
    /\ FnFrame
    /\ Free(c)
    /\ auth \in Callers
    /\ calls' = [calls EXCEPT ![c] =
                    Begin("setupInitialSuperAdmin", auth, data,
                          IF ~data.key THEN "permission-denied" ELSE "db.get")]
    /\ UNCHANGED <<authUsers, admins, users>>

\* db.collection('admins').where('role', '==', 'super_admin').limit(1).get();
\* the already-exists error is thrown inside the try block, whose catch
\* rethrows every error as internal.
setupInitialSuperAdmin_query(c) ==
    /\ FnFrame
    /\ At(c, "setupInitialSuperAdmin", "db.get")
    /\ \E ok \in BOOLEAN :
         calls' = [calls EXCEPT ![c] =
             IF ~ok THEN Finish(@, "internal")
             ELSE IF \E u \in Uids : admins[u].exists /\ admins[u].role = "super_admin"
             THEN Finish([@ EXCEPT !.thrown = "already-exists"], "internal")
             ELSE [@ EXCEPT !.pc = "auth.getUser"]]
    /\ UNCHANGED <<authUsers, admins, users>>

\* auth.getUser(userId)
setupInitialSuperAdmin_getUser(c) ==
    /\ FnFrame
    /\ At(c, "setupInitialSuperAdmin", "auth.getUser")
    /\ \E ok \in BOOLEAN :
         calls' = [calls EXCEPT ![c] =
             IF ok /\ calls[c].data.id \in Uids /\ authUsers[calls[c].data.id].exists
             THEN [@ EXCEPT !.pc = "auth.setCustomUserClaims", !.uid = calls[c].data.id]
             ELSE Finish(@, "internal")]
    /\ UNCHANGED <<authUsers, admins, users>>

\* auth.setCustomUserClaims(userId, {role: 'super_admin'})
setupInitialSuperAdmin_setClaims(c) ==
    /\ FnFrame
    /\ At(c, "setupInitialSuperAdmin", "auth.setCustomUserClaims")
    /\ \E ok \in BOOLEAN :
         IF ok /\ authUsers[calls[c].uid].exists
         THEN /\ authUsers' = [authUsers EXCEPT ![calls[c].uid].role = "super_admin"]
              /\ calls' = [calls EXCEPT ![c].pc = "db.set", ![c].changed = TRUE]
         ELSE /\ calls' = [calls EXCEPT ![c] = Finish(@, "internal")]
              /\ UNCHANGED authUsers
    /\ UNCHANGED <<admins, users>>

\* db.collection('admins').doc(userId).set({..., role: 'super_admin'})
setupInitialSuperAdmin_setDoc(c) ==
    /\ FnFrame
    /\ At(c, "setupInitialSuperAdmin", "db.set")
    /\ \E ok \in BOOLEAN :
         IF ok
         THEN /\ admins' = [admins EXCEPT ![calls[c].uid] = AdminDoc("super_admin", FALSE)]
              /\ calls' = [calls EXCEPT ![c] = Finish(@, "success")]
         ELSE /\ calls' = [calls EXCEPT ![c] = Finish(@, "internal")]
              /\ UNCHANGED admins
    /\ UNCHANGED <<authUsers, users>>

setupInputs ==
    {[NoData EXCEPT !.id = i, !.key = k] : i \in 0..MaxUid, k \in BOOLEAN}

\* The project before its first administrator: identities without claims,
\* no admin records.
InitSetup ==
    /\ authUsers = [u \in Uids |-> Identity("none", FALSE)]
    /\ admins = [u \in Uids |-> NoDoc]
    /\ users = [u \in Uids |-> NoDoc]
    /\ calls = [c \in CallSlots |-> IdleCall]

\* setupInitialSuperAdmin, two calls at a time.
NextSetup ==
    \/ \E c \in CallSlots, auth \in Tokens, data \in setupInputs :
           setupInitialSuperAdmin(c, auth, data)
    \/ \E c \in CallSlots : setupInitialSuperAdmin_query(c)
    \/ \E c \in CallSlots : setupInitialSuperAdmin_getUser(c)
    \/ \E c \in CallSlots : setupInitialSuperAdmin_setClaims(c)
    \/ \E c \in CallSlots : setupInitialSuperAdmin_setDoc(c)

(***************************************************************************)
(* CLAIMS about the Cloud Functions                                        *)
(***************************************************************************)
Quiescent == \A c \in CallSlots : Free(c)

\* The step on which a call arrives in slot c.
Arrives(c) == Free(c) /\ calls'[c] # calls[c]

\* C3: once the createAdmin, toggleAdminStatus and deleteAdmin calls of
\* super-admin callers have all returned, in whatever interleaving their
\* steps ran, at least one admins record with role super_admin that is not
\* disabled exists.
C3_ActiveSuperAdminRemains ==
    Quiescent =>
        \E u \in Uids :
            admins[u].exists /\ admins[u].role = "super_admin" /\ ~admins[u].disabled

\* C4: a deleteAdmin call that found its super_admin target to be the sole
\* non-disabled super_admin left (and so raised failed-precondition) fails
\* with the error failed-precondition, not internal.
C4_SoleSuperAdminFailedPrecondition ==
    \A c \in CallSlots :
        (calls[c].op = "deleteAdmin" /\ calls[c].pc = "done"
            /\ calls[c].thrown = "failed-precondition")
        => calls[c].result = "failed-precondition"

SelfTargeted(f) ==
    /\ f.op \in {"toggleAdminStatus", "deleteAdmin"}
    /\ f.auth.present
    /\ f.data.id = f.auth.uid

\* C5 as stated: for every caller, toggleAdminStatus and deleteAdmin with
\* adminId equal to the caller's own uid fail with invalid-argument and change
\* neither the identity provider nor the admins collection.
C5_SelfTargetInvalidArgument ==
    [][\A c \in CallSlots :
          (Arrives(c) /\ SelfTargeted(calls'[c]))
          => /\ calls'[c].pc = "done"
             /\ calls'[c].result = "invalid-argument"
             /\ UNCHANGED <<authUsers, admins>>]_vars

\* C5 amended: toggleAdminStatus and deleteAdmin with adminId equal to the
\* caller's own uid fail at once, with invalid-argument when the caller's
\* token carries the role super_admin and with permission-denied when it
\* carries any other role or none, and change neither the identity provider
\* nor the admins collection.
C5_SelfTargetRejected ==
    [][\A c \in CallSlots :
          (Arrives(c) /\ SelfTargeted(calls'[c]))
          => /\ calls'[c].pc = "done"
             /\ calls'[c].result = IF calls'[c].auth.role = "super_admin"
                                   THEN "invalid-argument" ELSE "permission-denied"
             /\ UNCHANGED <<authUsers, admins>>]_vars

C5_Witness ==
    /\ calls["c1"].op = "deleteAdmin"
    /\ calls["c1"].auth.role = "super_admin"
    /\ calls["c1"].data.id = calls["c1"].auth.uid
    /\ calls["c1"].result = "invalid-argument"

\* The roles each privileged operation allows.
AllowedRoles(op) ==
    IF op \in {"createAdmin", "toggleAdminStatus", "deleteAdmin", "getAdmins",
               "generateAdminReport"}
    THEN {"super_admin"}
    ELSE IF op \in {"createUser", "updateUser", "updateUserStatus", "deleteUser",
                    "getUsers", "searchUsers", "generateUserReport", "getDashboardStats"}
    THEN {"admin", "super_admin"}
    ELSE {}

\* C6: a call of a privileged operation that carries no principal fails with
\* unauthenticated, and one whose principal's role the operation does not
\* allow fails with permission-denied, in both cases at once, with no remote
\* read or write started and no store changed; a call whose role is allowed
\* gets neither error. createAdmin, toggleAdminStatus, deleteAdmin, getAdmins
\* and generateAdminReport allow super_admin only; the user operations, the
\* user queries and getDashboardStats allow admin and super_admin.
C6_RoleGateFirst ==
    [][\A c \in CallSlots :
          (Arrives(c) /\ calls'[c].op \notin PageOps)
          => LET f == calls'[c]
             IN /\ AllowedRoles(f.op) # {}
                /\ ~f.auth.present
                     => /\ f.pc = "done" /\ f.result = "unauthenticated"
                        /\ UNCHANGED <<authUsers, admins, users>>
                /\ (f.auth.present /\ f.auth.role \notin AllowedRoles(f.op))
                     => /\ f.pc = "done" /\ f.result = "permission-denied"
                        /\ UNCHANGED <<authUsers, admins, users>>
                /\ (f.auth.present /\ f.auth.role \in AllowedRoles(f.op))
                     => f.result \notin {"unauthenticated", "permission-denied"}]_vars

C6_Witness ==
    /\ calls["c1"].op = "getAdmins"
    /\ calls["c1"].auth.role = "admin"
    /\ calls["c1"].pc = "done"
    /\ calls["c1"].result = "permission-denied"

\* C9: once the user-mutating operations have all returned, every users
\* record whose status is suspended or inactive belongs to a disabled
\* identity, and every record whose status is active or pending to an enabled
\* one.
C9_StatusMatchesIdentity ==
    Quiescent =>
        \A u \in Uids :
            (users[u].exists /\ authUsers[u].exists)
            => (users[u].status \in {"suspended", "inactive"} <=> authUsers[u].disabled)

\* The handlers that write to the identity provider and then to the document
\* store.
TwoWriteHandlers == {"createAdmin", "createUser", "toggleAdminStatus", "updateUserStatus"}

\* C14: a createAdmin, createUser, toggleAdminStatus or updateUserStatus call
\* that ends in an error has left the identity provider as it was: no identity
\* created, disabled or enabled by a call that failed.
C14_FailureLeavesStoresUnchanged ==
    \A c \in CallSlots :
        (calls[c].op \in TwoWriteHandlers /\ calls[c].pc = "done"
            /\ calls[c].result \in Errors)
        => ~calls[c].changed

\* The arguments C15 calls invalid, per handler.
InvalidArguments(op, data) ==
    CASE op = "createAdmin" ->
            ~data.email \/ data.pwLen < 8 \/ data.role \notin {"admin", "super_admin"}
      [] op = "createUser" -> ~data.name \/ ~data.email \/ data.pwLen < 6
      [] op = "updateUserStatus" -> data.id = 0 \/ data.status \notin UserStatuses
      [] op \in {"toggleAdminStatus", "deleteAdmin", "updateUser", "deleteUser"} ->
            data.id = 0
      [] OTHER -> FALSE

C16_FailureNotRetried ==
    [][\A c \in CallSlots :
         (calls[c].pc \in {"page.updateDoc", "page.deleteDoc"}
            /\ calls[c].result \in Errors /\ calls'[c] # calls[c])
         => users' = users /\ calls'[c].result \in Errors]_vars

\* The step on which a deleteAdmin / deleteUser call that got past the role
\* gate and the argument tests returns, having met no failure of a remote step
\* other than the identity provider's user-not-found.
DeleteReturns(c) ==
    /\ calls[c].op \in {"deleteAdmin", "deleteUser"}
    /\ calls[c].pc \notin {"idle", "done"}
    /\ calls'[c].pc = "done"
    /\ calls'[c].thrown # "error"

Records(op) == IF op = "deleteAdmin" THEN admins ELSE users

Tabs  == {"t1"}
Pages == {"dashboard", "orders", "users", "admins"}

ROLES == [SUPER_ADMIN |-> "super_admin", ADMIN |-> "admin"]

\* The Firebase user object of an identity.
User(u) == [uid |-> u, email |-> <<"mail", u>>]
NoUser  == [uid |-> 0, email |-> <<>>]

\* null, as adminData
Null == [null |-> TRUE, uid |-> 0, email |-> <<>>, role |-> "", isSuperAdmin |-> FALSE]

\* user.getIdTokenResult(true): the refresh fails (always for a disabled or
\* deleted identity), or it returns the identity's current role claim
\* ("none": no role claim).
TokenResults(u) ==
    {"error"} \cup (IF authUsers[u].exists /\ ~authUsers[u].disabled
                    THEN {authUsers[u].role} ELSE {})

\* A faulty resolution, for testing C7: every role claim accepted.
checkAdminRole_anyClaim(user, tokenResult) ==
    IF user = NoUser \/ tokenResult = "error" THEN Null
    ELSE [null |-> FALSE, uid |-> user.uid, email |-> user.email,
          role |-> tokenResult, isSuperAdmin |-> tokenResult = ROLES.SUPER_ADMIN]

checkAdminRole(user, tokenResult) ==
    IF user = NoUser THEN Null
    ELSE IF tokenResult = "error" THEN Null
    ELSE IF tokenResult = ROLES.SUPER_ADMIN \/ tokenResult = ROLES.ADMIN
         THEN [null |-> FALSE, uid |-> user.uid, email |-> user.email,
               role |-> tokenResult, isSuperAdmin |-> tokenResult = ROLES.SUPER_ADMIN]
         ELSE Null

ClosedGuard ==
    [pc |-> "closed", page |-> "", seen |-> -1, user |-> NoUser, token |-> "",
     adminData |-> Null]

\* window.location.href = 'login.html' (or a link followed): the page's
\* handlers are done, the document awaits its unload.
redirect(g) == [ClosedGuard EXCEPT !.pc = "unloading", !.page = g.page]
NoInit == [page |-> "", adminData |-> Null]
IdleLogin ==
    [pc |-> "idle", user |-> NoUser, token |-> "", adminData |-> Null, outcome |-> ""]

\* auth.js touches neither the orders page's state nor the servers'.
AuthFrame == UNCHANGED <<orders, clock, currentAdmin, allOrders, modal, inflight, toast,
                         authUsers, admins, users, calls, remote,
                         table, api, dash>>

(***************************************************************************)
(* The pages' snapshot listeners. initDashboard, initOrdersPage and         *)
(* initUsersPage each register one onSnapshot listener on a collection and  *)
(* keep its unsubscribe function in a module variable (unsubscribeOrders,   *)
(* usersUnsubscribe), which therefore refers to the listener registered     *)
(* last. Assigning window.location.href starts a navigation; the document   *)
(* and the listeners it still holds live on until the browser unloads it.   *)
(***************************************************************************)
MaxDocs      == 2   \* documents a watched collection can hold
MaxListeners == 2   \* listeners a page load can have registered

DocIds == 1..MaxDocs

\* A collection as a listener sees it: doc id -> "absent" or the document's
\* status.
NoDocs == [d \in DocIds |-> "absent"]

\* The collection a page's init callback subscribes to.
Watched(page) ==
    CASE page = "dashboard" -> "orders"
      [] page = "orders"    -> "orders"
      [] page = "users"     -> "users"
      [] OTHER              -> "none"

\* A listener: whether its first snapshot was delivered, and the documents of
\* the last snapshot it delivered.
NewListener == [delivered |-> FALSE, known |-> NoDocs]

\* A freshly loaded page: allOrders / allUsers = [], no listener, no toast.
NoView == [listeners |-> <<>>, mirror |-> NoDocs, notified |-> 0]

\* unsubscribeOrders = onSnapshot(...) / usersUnsubscribe = onSnapshot(...),
\* as the init callback of `page` runs it
listen(v, page) ==
    IF Watched(page) = "none" THEN v
    ELSE [v EXCEPT !.listeners = Append(@, NewListener)]

\* if (unsubscribeOrders) unsubscribeOrders(): the listener registered last
dispose(v) ==
    IF v.listeners = <<>> THEN v
    ELSE [v EXCEPT !.listeners = SubSeq(@, 1, Len(@) - 1)]

\* window.addEventListener('beforeunload', ...): the users page disposes
\* usersUnsubscribe when a navigation starts; the other pages have no such
\* handler.
beforeunload(v, page) == IF page = "users" THEN dispose(v) ELSE v

\* snapshot.docChanges() of type 'added', for a listener that delivered
\* `known` before (no document, for its first snapshot)
added(known, snapshot) ==
    {d \in DocIds : known[d] = "absent" /\ snapshot[d] # "absent"}

\* snapshot.size
size(snapshot) == Cardinality({d \in DocIds : snapshot[d] # "absent"})

\* The new-arrival toasts a page's snapshot callback shows.
\*   orders:    newCount > 0 && allOrders.length > newCount, one toast
\*   users:     per change, change.type === "added" && allUsers.length > 1
\*   dashboard: per change, added && status === 'confirmed', unless more
\*              than one document was added
showToasts(page, known, snapshot) ==
    LET newCount == Cardinality(added(known, snapshot))
    IN CASE page = "orders" ->
                IF newCount > 0 /\ size(snapshot) > newCount THEN 1 ELSE 0
         [] page = "users" ->
                IF size(snapshot) > 1 THEN newCount ELSE 0
         [] page = "dashboard" ->
                IF newCount <= 1
                THEN Cardinality({d \in added(known, snapshot) :
                                    snapshot[d] = "confirmed"})
                ELSE 0
         [] OTHER -> 0

\* The snapshot callback of listener i: the orders and users pages rebuild
\* their mirror from the snapshot; the dashboard keeps none.
snapshotCallback(v, i, page, snapshot) ==
    [v EXCEPT !.listeners[i] = [delivered |-> TRUE, known |-> snapshot],
              !.mirror = IF page = "dashboard" THEN @ ELSE snapshot,
              !.notified = showToasts(page, v.listeners[i].known, snapshot)]


\* A privileged page loads: protectRoute(initX) registers the listener.
protectRoute(t, page) ==
    /\ AuthFrame
    /\ guard[t].pc = "closed"
    /\ guard' = [guard EXCEPT ![t] = [ClosedGuard EXCEPT !.pc = "listening", !.page = page]]
    /\ view' = [view EXCEPT ![t] = NoView]
    /\ UNCHANGED <<signedIn, initCalls, login>>

\* The listener runs with the current user: redirect when there is none,
\* otherwise await checkAdminRole(user).
onAuthStateChanged(t) ==
    /\ AuthFrame
    /\ guard[t].pc = "listening"
    /\ guard[t].seen # signedIn
    /\ IF signedIn = 0
       THEN /\ guard' = [guard EXCEPT ![t] = redirect(@)]
            /\ initCalls' = [initCalls EXCEPT ![t] = NoInit]
            /\ view' = [view EXCEPT ![t] = beforeunload(@, guard[t].page)]
       ELSE /\ guard' = [guard EXCEPT ![t].pc = "checkAdminRole",
                                      ![t].seen = signedIn,
                                      ![t].user = User(signedIn),
                                      ![t].token = "", ![t].adminData = Null]
            /\ UNCHANGED <<initCalls, view>>
    /\ UNCHANGED <<signedIn, login>>

\* A faulty guard, for testing C8: the callback invoked whatever adminData is.
protectRoute_checked_noTest(t) ==
    /\ AuthFrame
    /\ guard[t].pc = "checkAdminRole"
    /\ Len(view[t].listeners) < MaxListeners
    /\ \E tokenResult \in TokenResults(guard[t].user.uid) :
         LET adminData == checkAdminRole(guard[t].user, tokenResult)
         IN /\ guard' = [guard EXCEPT ![t].pc = "listening", ![t].token = tokenResult,
                                      ![t].adminData = adminData]
            /\ initCalls' = [initCalls EXCEPT ![t] =
                   [page |-> guard[t].page, adminData |-> adminData]]
            /\ view' = [view EXCEPT ![t] = listen(@, guard[t].page)]
    /\ UNCHANGED <<signedIn, login>>

\* checkAdminRole resolves: start signOut when adminData is null, otherwise
\* callback(adminData), the page's init, which registers the page's listener.
protectRoute_checked(t) ==
    /\ AuthFrame
    /\ guard[t].pc = "checkAdminRole"
    /\ Len(view[t].listeners) < MaxListeners
    /\ \E tokenResult \in TokenResults(guard[t].user.uid) :
         LET adminData == checkAdminRole(guard[t].user, tokenResult)
         IN IF adminData = Null
            THEN /\ guard' = [guard EXCEPT ![t].pc = "signOut", ![t].token = tokenResult,
                                           ![t].adminData = adminData]
                 /\ UNCHANGED <<initCalls, view>>
            ELSE /\ guard' = [guard EXCEPT ![t].pc = "listening", ![t].token = tokenResult,
                                           ![t].adminData = adminData]
                 /\ initCalls' = [initCalls EXCEPT ![t] =
                        [page |-> guard[t].page, adminData |-> adminData]]
                 /\ view' = [view EXCEPT ![t] = listen(@, guard[t].page)]
    /\ UNCHANGED <<signedIn, login>>

\* signOut(auth) resolves, then window.location.href = 'login.html'.
protectRoute_signOut(t) ==
    /\ AuthFrame
    /\ guard[t].pc = "signOut"
    /\ signedIn' = 0
    /\ guard' = [guard EXCEPT ![t] = redirect(@)]
    /\ initCalls' = [initCalls EXCEPT ![t] = NoInit]
    /\ view' = [view EXCEPT ![t] = beforeunload(@, guard[t].page)]
    /\ UNCHANGED login

\* The login form: signInWithEmailAndPassword with the credentials of u,
\* which the identity provider accepts or rejects.
loginAdmin(u, accepted) ==
    /\ AuthFrame
    /\ login.pc \in {"idle", "done"}
    /\ IF accepted /\ authUsers[u].exists /\ ~authUsers[u].disabled
       THEN /\ signedIn' = u
            /\ login' = [IdleLogin EXCEPT !.pc = "checkAdminRole", !.user = User(u)]
       ELSE /\ login' = [IdleLogin EXCEPT !.pc = "done", !.outcome = "error"]
            /\ UNCHANGED signedIn
    /\ UNCHANGED <<guard, initCalls, view>>

loginAdmin_checked ==
    /\ AuthFrame
    /\ login.pc = "checkAdminRole"
    /\ \E tokenResult \in TokenResults(login.user.uid) :
         LET adminData == checkAdminRole(login.user, tokenResult)
         IN login' = [login EXCEPT !.token = tokenResult, !.adminData = adminData,
                        !.pc = IF adminData = Null THEN "signOut" ELSE "done",
                        !.outcome = IF adminData = Null THEN "" ELSE "returned"]
    /\ UNCHANGED <<signedIn, guard, initCalls, view>>

\* signOut(auth) resolves, then throw new Error('Access denied. ...')
loginAdmin_signOut ==
    /\ AuthFrame
    /\ login.pc = "signOut"
    /\ signedIn' = 0
    /\ login' = [login EXCEPT !.pc = "done", !.outcome = "denied"]
    /\ UNCHANGED <<guard, initCalls, view>>

\* The logout control of an initialised page: the page's click handler
\* disposes its subscription, then logoutAdmin signs out and redirects.
logoutAdmin(t) ==
    /\ AuthFrame
    /\ guard[t].pc = "listening"
    /\ initCalls[t] # NoInit
    /\ signedIn' = 0
    /\ guard' = [guard EXCEPT ![t] = redirect(@)]
    /\ initCalls' = [initCalls EXCEPT ![t] = NoInit]
    /\ view' = [view EXCEPT ![t] = beforeunload(dispose(@), guard[t].page)]
    /\ UNCHANGED login

\* The admin follows a link of the sidebar, which init has made visible.
navigateAway(t) ==
    /\ AuthFrame
    /\ guard[t].pc = "listening"
    /\ initCalls[t] # NoInit
    /\ guard' = [guard EXCEPT ![t] = redirect(@)]
    /\ initCalls' = [initCalls EXCEPT ![t] = NoInit]
    /\ view' = [view EXCEPT ![t] = beforeunload(@, guard[t].page)]
    /\ UNCHANGED <<signedIn, login>>

\* The browser unloads the document: its listeners and its state are gone.
unload(t) ==
    /\ AuthFrame
    /\ guard[t].pc = "unloading"
    /\ guard' = [guard EXCEPT ![t] = ClosedGuard]
    /\ view' = [view EXCEPT ![t] = NoView]
    /\ UNCHANGED <<signedIn, initCalls, login>>

\* Firestore delivers a snapshot to listener i of tab t: its first one, or
\* one after the collection changed.
deliver(t, i) ==
    /\ AuthFrame
    /\ i <= Len(view[t].listeners)
    /\ LET snapshot == remote[Watched(guard[t].page)]
       IN /\ ~view[t].listeners[i].delivered \/ view[t].listeners[i].known # snapshot
          /\ view' = [view EXCEPT ![t] = snapshotCallback(@, i, guard[t].page, snapshot)]
    /\ UNCHANGED <<signedIn, guard, initCalls, login>>

\* Writes to the watched collections by other clients: a customer places an
\* order (status confirmed), an admin packs it, a user is registered, a user
\* is deleted.
ViewsFrame == UNCHANGED <<orders, clock, currentAdmin, allOrders, modal, inflight, toast,
                          authUsers, admins, users, calls,
                          signedIn, guard, initCalls, login, view,
                          table, api, dash>>

placeOrder(d) ==
    /\ ViewsFrame
    /\ remote.orders[d] = "absent"
    /\ remote' = [remote EXCEPT !.orders[d] = "confirmed"]

orderPacked(d) ==
    /\ ViewsFrame
    /\ remote.orders[d] = "confirmed"
    /\ remote' = [remote EXCEPT !.orders[d] = "packed"]

userRegistered(d) ==
    /\ ViewsFrame
    /\ remote.users[d] = "absent"
    /\ remote' = [remote EXCEPT !.users[d] = "active"]

userDeleted(d) ==
    /\ ViewsFrame
    /\ remote.users[d] = "active"
    /\ remote' = [remote EXCEPT !.users[d] = "absent"]

NextAuth ==
    \/ \E t \in Tabs, page \in Pages : protectRoute(t, page)
    \/ \E t \in Tabs : onAuthStateChanged(t)
    \/ \E t \in Tabs : protectRoute_checked(t)
    \/ \E t \in Tabs : protectRoute_signOut(t)
    \/ \E u \in Uids, accepted \in BOOLEAN : loginAdmin(u, accepted)
    \/ loginAdmin_checked
    \/ loginAdmin_signOut
    \/ \E t \in Tabs : logoutAdmin(t)
    \/ \E t \in Tabs : navigateAway(t)
    \/ \E t \in Tabs : unload(t)

\* The pages with their listeners, and the collections changing under them.
NextViews ==
    \/ \E t \in Tabs, page \in Pages : protectRoute(t, page)
    \/ \E t \in Tabs : onAuthStateChanged(t)
    \/ \E t \in Tabs : protectRoute_checked(t)
    \/ \E t \in Tabs : protectRoute_signOut(t)
    \/ \E u \in Uids, accepted \in BOOLEAN : loginAdmin(u, accepted)
    \/ loginAdmin_checked
    \/ loginAdmin_signOut
    \/ \E t \in Tabs : logoutAdmin(t)
    \/ \E t \in Tabs : navigateAway(t)
    \/ \E t \in Tabs : unload(t)
    \/ \E t \in Tabs, i \in 1..MaxListeners : deliver(t, i)
    \/ \E d \in DocIds : placeOrder(d)
    \/ \E d \in DocIds : orderPacked(d)
    \/ \E d \in DocIds : userRegistered(d)
    \/ \E d \in DocIds : userDeleted(d)

(***************************************************************************)
(* CLAIMS about auth.js                                                    *)
(***************************************************************************)
AdminRoles == {"admin", "super_admin"}

\* What checkAdminRole is to return for a user and the outcome of its token
\* fetch.
Resolved(user, token) ==
    IF token \in AdminRoles
    THEN [null |-> FALSE, uid |-> user.uid, email |-> user.email, role |-> token,
          isSuperAdmin |-> (token = "super_admin")]
    ELSE Null

\* C7: checkAdminRole returns null when the token fetch fails or the role
\* claim is missing, 'user' or anything but admin and super_admin; otherwise
\* it returns {uid, email, role, isSuperAdmin} of the user, isSuperAdmin being
\* true exactly for super_admin.
C7_checkAdminRole ==
    /\ \A t \in Tabs :
         guard[t].token # "" => guard[t].adminData = Resolved(guard[t].user, guard[t].token)
    /\ login.token # "" => login.adminData = Resolved(login.user, login.token)

C7_Witness ==
    /\ login.token = "super_admin"
    /\ login.adminData.isSuperAdmin
    /\ guard["t1"].token = "user"
    /\ guard["t1"].adminData = Null

\* C8: a page's init callback is invoked only with the adminData of a user
\* whose role resolved to admin or super_admin; when the role of the user seen
\* by protectRoute or loginAdmin resolves to neither, the callback is not
\* invoked, loginAdmin returns no admin data, and the signOut that follows
\* leaves nobody signed in.
C8_OnlyAdminsInitialised ==
    [][/\ \A t \in Tabs :
            /\ initCalls'[t] # NoInit => initCalls'[t].adminData.role \in AdminRoles
            /\ (initCalls'[t] # initCalls[t] /\ initCalls'[t] # NoInit)
                 => /\ guard'[t].token \in AdminRoles
                    /\ initCalls'[t].adminData.role = guard'[t].token
                    /\ initCalls'[t].adminData.uid = guard[t].user.uid
                    /\ initCalls'[t].page = guard[t].page
            /\ (guard[t].pc = "checkAdminRole" /\ guard'[t] # guard[t]
                    /\ guard'[t].token \notin AdminRoles)
                 => guard'[t].pc = "signOut" /\ initCalls'[t] = initCalls[t]
            /\ (guard[t].pc = "signOut" /\ guard'[t] # guard[t])
                 => signedIn' = 0 /\ initCalls'[t] = NoInit
       /\ (login.pc = "checkAdminRole" /\ login' # login /\ login'.token \notin AdminRoles)
            => login'.pc = "signOut" /\ login'.outcome = ""
       /\ (login.pc = "signOut" /\ login' # login)
            => signedIn' = 0 /\ login'.outcome = "denied" /\ login'.adminData = Null
       /\ login'.outcome = "returned" => login'.adminData.role \in AdminRoles]_vars

C8_Witness ==
    /\ guard["t1"].pc = "signOut"
    /\ guard["t1"].token = "none"
    /\ initCalls["t1"] = NoInit
    /\ signedIn # 0

\* C18: a page holds at most one active subscription at any time.
C18_AtMostOneSubscription ==
    \A t \in Tabs : Len(view[t].listeners) <= 1

\* C19: when the logout button or the route guard's forced sign-out has logged
\* the session out, the page that did it holds no active subscription any
\* more.
C19_DisposedOnLogout ==
    [][\A t \in Tabs :
         (signedIn # 0 /\ signedIn' = 0 /\ guard'[t] # guard[t])
         => view'[t].listeners = <<>>]_vars

\* C20: the callback that delivers a listener's first snapshot into an empty
\* mirror shows no new-arrival toast.
C20_NoToastOnFirstSnapshot ==
    [][\A t \in Tabs, i \in 1..MaxListeners :
         (/\ i <= Len(view[t].listeners) /\ i <= Len(view'[t].listeners)
          /\ ~view[t].listeners[i].delivered
          /\ view'[t].listeners[i].delivered
          /\ view[t].mirror = NoDocs)
         => view'[t].notified = 0]_vars

\* The step on which listener i of tab t delivers a snapshot.
Delivers(t, i) ==
    /\ i <= Len(view[t].listeners)
    /\ Len(view'[t].listeners) = Len(view[t].listeners)
    /\ view'[t].listeners[i] # view[t].listeners[i]

\* C21: on the orders and users pages a snapshot delivered while the mirror is
\* not empty raises the new-arrival notification exactly once when it reports
\* additions, and not at all when it reports none.
C21_OncePerBatch ==
    [][\A t \in Tabs, i \in 1..MaxListeners :
         (Delivers(t, i) /\ guard[t].page \in {"orders", "users"}
            /\ view[t].mirror # NoDocs)
         => view'[t].notified =
              IF added(view[t].listeners[i].known, view'[t].listeners[i].known) # {}
              THEN 1 ELSE 0]_vars

UserHandlers == {"createUser", "updateUser", "updateUserStatus", "deleteUser"}

C29_OneInitialSuperAdmin ==
    [][/\ \A c \in CallSlots :
            (Free(c) /\ calls'[c] # calls[c]
               /\ calls'[c].op = "setupInitialSuperAdmin" /\ ~calls'[c].data.key)
            => /\ calls'[c].pc = "done" /\ calls'[c].result = "permission-denied"
               /\ UNCHANGED <<authUsers, admins, users>>
       /\ \A c \in CallSlots :
            (At(c, "setupInitialSuperAdmin", "auth.setCustomUserClaims")
               /\ authUsers' # authUsers)
            => /\ calls[c].data.key
               /\ ~\E u \in Uids : admins[u].exists /\ admins[u].role = "super_admin"
       /\ Cardinality({u \in Uids : authUsers'[u].role = "super_admin"}) <= 1]_vars

(***************************************************************************)
(* The table of the orders page (src/unnamed/part_003) and of the users    *)
(* page (src/unnamed/part_004): the mirror a snapshot fills, the filter    *)
(* inputs, the filtered list, the page shown and the statistics.           *)
(*                                                                         *)
(* Text is a sequence of one-character strings.  A time is the number of   *)
(* hours since 1 January 00:00 local time of a year that is no leap year.  *)
(***************************************************************************)
itemsPerPage == 10

\* The most documents the watched collection holds.
MaxRows == 12

HoursPerDay == 24
DaysIn == <<31, 28, 31>>

RECURSIVE DaysBefore(_)
DaysBefore(m) == IF m <= 1 THEN 0 ELSE DaysBefore(m - 1) + DaysIn[m - 1]

\* new Date(year, m, d, h): a day past the month's end runs into the next month.
date(m, d, h) == (DaysBefore(m) + d - 1) * HoursPerDay + h

getMonth(t) ==
    CHOOSE m \in 1..Len(DaysIn) :
        /\ DaysBefore(m) * HoursPerDay <= t
        /\ t < (DaysBefore(m) + DaysIn[m]) * HoursPerDay
getDate(t) == (t \div HoursPerDay) - DaysBefore(getMonth(t)) + 1
getHours(t) == t % HoursPerDay

\* today.setHours(0, 0, 0, 0)
midnight(now) == now - getHours(now)
\* weekAgo.setDate(now.getDate() - 7)
weekAgo(now) == date(getMonth(now), getDate(now) - 7, getHours(now))
\* monthAgo.setMonth(now.getMonth() - 1)
monthAgo(now) == date(getMonth(now) - 1, getDate(now), getHours(now))

\* The times `new Date()` returns while the page is open.
Nows == <<date(3, 10, 12), date(3, 31, 12)>>

UpperToLower == ("A" :> "a") @@ ("B" :> "b") @@ ("X" :> "x")
toLowerCase(s) ==
    [i \in 1..Len(s) |-> IF s[i] \in DOMAIN UpperToLower THEN UpperToLower[s[i]] ELSE s[i]]

RECURSIVE trim(_)
trim(s) ==
    IF s = <<>> THEN s
    ELSE IF Head(s) = " " THEN trim(Tail(s))
    ELSE IF s[Len(s)] = " " THEN trim(SubSeq(s, 1, Len(s) - 1))
    ELSE s

\* String.prototype.includes
includes(s, search) ==
    \E i \in 0..(Len(s) - Len(search)) : SubSeq(s, i + 1, i + Len(search)) = search

\* Array.prototype.slice(start, end) for 0 <= start
slice_toEnd(list, start, end) == SubSeq(list, start + 1, Len(list))
slice(list, start, end) == SubSeq(list, start + 1, end)

\* The documents of the watched collection, newest first as the query
\* orders them (orderBy createdAt desc; a null createdAt sorts last).  An
\* order keeps name, phone and email under `address`; <<>> is a missing
\* field.
Letters == <<"A", "B", "c">>
Digits == <<"1", "2", "3", "4", "5", "6", "7", "8", "9">>
Names == << <<"a", "n", "n">>, <<>>, <<"B", "o">>, <<"x">> >>
Phones == << <<"9", "1">>, <<"7", "X">>, <<>> >>
Emails == << <<"a", "@", "x">>, <<>> >>
OrderStatuses == <<"confirmed", "delivered", "cancelled", "packed", "out_for_delivery">>
AccountStatuses == <<"active", "suspended">>
Totals == <<100, 200, 50>>
Times == <<date(3, 11, 9), date(3, 10, 15), date(3, 10, 9), date(3, 9, 20),
           date(3, 3, 13), date(3, 3, 11), date(2, 10, 12), date(2, 10, 11),
           date(1, 15, 0)>>

Row(page, i) ==
    [id |-> <<Letters[((i - 1) % 3) + 1], Digits[((i - 1) \div 3) + 1]>>,
     name |-> Names[((i - 1) % 4) + 1],
     phone |-> Phones[((i - 1) % 3) + 1],
     email |-> Emails[((i - 1) % 2) + 1],
     status |-> IF page = "orders" THEN OrderStatuses[((i - 1) % 5) + 1]
                ELSE AccountStatuses[((i - 1) % 2) + 1],
     createdAt |-> IF i = MaxRows THEN <<>>
                   ELSE IF i <= Len(Times) THEN <<Times[i]>>
                   ELSE <<date(1, 1, 0) + (MaxRows - i)>>,
     total |-> Totals[((i - 1) % 3) + 1]]

Collection == [page \in {"orders", "users"} |-> [i \in 1..MaxRows |-> Row(page, i)]]

\* The query result holding documents a..b of the collection.
Snapshot(page, a, b) == SubSeq(Collection[page], a, b)

SearchInputs == {<<>>, <<"B">>, <<" ", "x">>}
StatusInputs == {"", "all", "confirmed", "active"}
DateInputs == {"", "all", "today", "week", "month"}

\* part_003:126-131, part_004:193-197
matchesSearch(order, search) ==
    \/ search = <<>>
    \/ includes(toLowerCase(order.id), search)
    \/ order.name # <<>> /\ includes(toLowerCase(order.name), search)
    \/ order.phone # <<>> /\ includes(order.phone, search)
    \/ order.email # <<>> /\ includes(toLowerCase(order.email), search)

matchesStatus(order, status) == status = "" \/ order.status = status

matchesDate(order, dateFilter, now) ==
    IF dateFilter # "" /\ dateFilter # "all" /\ order.createdAt # <<>>
    THEN CASE dateFilter = "today" -> order.createdAt[1] >= midnight(now)
           [] dateFilter = "week"  -> order.createdAt[1] >= weekAgo(now)
           [] dateFilter = "month" -> order.createdAt[1] >= monthAgo(now)
           [] OTHER -> TRUE
    ELSE TRUE

\* exportOrders' filter: the orders a period exports.
exportOrders(orders_, period, now) ==
    IF period = "all" THEN orders_
    ELSE SelectSeq(orders_, LAMBDA order :
            /\ order.createdAt # <<>>
            /\ CASE period = "today" -> order.createdAt[1] >= midnight(now)
                 [] period = "week"  -> order.createdAt[1] >= weekAgo(now)
                 [] period = "month" -> order.createdAt[1] >= monthAgo(now)
                 [] OTHER -> TRUE)

ceil(n, d) == (n + d - 1) \div d
Min(a, b) == IF a <= b THEN a ELSE b

\* The page numbers the rendered buttons pass to changePage; a disabled
\* button passes none.
renderPagination(totalPages, currentPage) ==
    IF totalPages <= 1 THEN {}
    ELSE (IF currentPage = 1 THEN {} ELSE {currentPage - 1})
         \cup {i \in 1..totalPages :
                 i = 1 \/ i = totalPages
                   \/ (i >= currentPage - 1 /\ i <= currentPage + 1)}
         \cup (IF currentPage = totalPages THEN {} ELSE {currentPage + 1})

renderTable(t) ==
    IF Len(t.filteredOrders) = 0
    THEN [t EXCEPT !.rows = <<>>, !.pagination = {}]
    ELSE LET totalPages == ceil(Len(t.filteredOrders), itemsPerPage)
             start == (t.currentPage - 1) * itemsPerPage
             end == Min(start + itemsPerPage, Len(t.filteredOrders))
         IN  [t EXCEPT !.rows = slice(t.filteredOrders, start, end),
                       !.pagination = renderPagination(totalPages, t.currentPage)]

applyFilters_keepsPage(t) ==
    LET search == trim(toLowerCase(t.search))
    IN  renderTable([t EXCEPT
            !.filteredOrders = SelectSeq(t.allOrders, LAMBDA order :
                /\ matchesSearch(order, search)
                /\ matchesStatus(order, t.status)
                /\ (t.page = "users" \/ matchesDate(order, t.dateFilter, t.now)))])

applyFilters(t) ==
    LET search == trim(toLowerCase(t.search))
    IN  renderTable([t EXCEPT
            !.filteredOrders = SelectSeq(t.allOrders, LAMBDA order :
                /\ matchesSearch(order, search)
                /\ matchesStatus(order, t.status)
                /\ (t.page = "users" \/ matchesDate(order, t.dateFilter, t.now))),
            !.currentPage = 1])

\* The number of a list's elements that pass a test.
Count(list, Test(_)) == Len(SelectSeq(list, Test))

RECURSIVE todayRevenue(_, _)
todayRevenue(list, today) ==
    IF list = <<>> THEN 0
    ELSE LET order == Head(list)
         IN  (IF /\ order.createdAt # <<>>
                 /\ order.createdAt[1] >= today
                 /\ order.status # "cancelled"
              THEN order.total ELSE 0) + todayRevenue(Tail(list), today)

\* The statistics as displayed.  Orders page: total, pending, delivered,
\* today's revenue.  Users page: total, active, inactive, new today.
updateStats(t) ==
    LET today == midnight(t.now)
    IN  IF t.page = "orders"
        THEN <<Len(t.allOrders),
               Count(t.allOrders, LAMBDA order :
                   order.status \in {"confirmed", "packed", "out_for_delivery"}),
               Count(t.allOrders, LAMBDA order : order.status = "delivered"),
               todayRevenue(t.allOrders, today)>>
        ELSE <<Len(t.allOrders),
               Count(t.allOrders, LAMBDA user : user.status = "active"),
               Count(t.allOrders, LAMBDA user : user.status # "active"),
               Count(t.allOrders, LAMBDA user :
                   user.createdAt # <<>> /\ user.createdAt[1] >= today)>>

\* The ids of a list.
ids(list) == {list[i].id : i \in 1..Len(list)}

\* The page as its script leaves it before the first snapshot.
NewTable(page) ==
    [page |-> page, now |-> Nows[1], allOrders |-> <<>>,
     search |-> <<>>, status |-> "", dateFilter |-> "", timer |-> FALSE,
     filteredOrders |-> <<>>, currentPage |-> 1, rows |-> <<>>, pagination |-> {},
     stats |-> <<0, 0, 0, 0>>, toast |-> "none"]

InitTable == table \in {NewTable(page) : page \in {"orders", "users"}}

TableFrame == UNCHANGED <<orders, clock, currentAdmin, allOrders, modal, inflight, toast,
                          authUsers, admins, users, calls,
                          signedIn, guard, initCalls, login, remote, view,
                          api, dash>>

\* `new Date()` returns a later time.
tableTick(n) ==
    /\ n < Len(Nows)
    /\ table.now = Nows[n]
    /\ table' = [table EXCEPT !.now = Nows[n + 1]]
    /\ TableFrame

\* The snapshot listener's callback with documents a..b as the query result
\* (listenToOrders, setupRealtimeUsersListener).
tableSnapshot(a, b) ==
    /\ b >= a - 1
    /\ LET snapshot == Snapshot(table.page, a, b)
           newCount == Cardinality(ids(snapshot) \ ids(table.allOrders))
           t1 == [table EXCEPT !.allOrders = snapshot]
           t2 == [t1 EXCEPT !.toast =
                     IF table.page = "orders"
                     THEN (IF newCount > 0 /\ Len(snapshot) > newCount
                           THEN "info" ELSE t1.toast)
                     ELSE (IF newCount > 0 /\ Len(snapshot) > 1
                           THEN "success" ELSE t1.toast)]
           t3 == applyFilters(t2)
       IN  table' = [t3 EXCEPT !.stats = updateStats(t3)]
    /\ TableFrame

\* The search box's input event: debounce(applyFilters, 300) restarts its timer.
typeSearch(s) ==
    /\ table.search # s
    /\ table' = [table EXCEPT !.search = s, !.timer = TRUE]
    /\ TableFrame

\* The debounce timer fires.
debounced ==
    /\ table.timer
    /\ table' = applyFilters([table EXCEPT !.timer = FALSE])
    /\ TableFrame

\* The status filter's change event.
selectStatus(s) ==
    /\ s \in {"", "all", IF table.page = "orders" THEN "confirmed" ELSE "active"}
    /\ table.status # s
    /\ table' = applyFilters([table EXCEPT !.status = s])
    /\ TableFrame

\* The date filter's change event (orders page).
selectDate(d) ==
    /\ table.page = "orders"
    /\ table.dateFilter # d
    /\ table' = applyFilters([table EXCEPT !.dateFilter = d])
    /\ TableFrame

\* The refresh button (orders page).
refresh ==
    /\ table.page = "orders"
    /\ table' = applyFilters([table EXCEPT !.toast = "info"])
    /\ TableFrame

\* A click on a rendered pagination button.
changePage(page) ==
    /\ page \in table.pagination
    /\ table' = renderTable([table EXCEPT !.currentPage = page])
    /\ TableFrame

\* The export menu (orders page).
window_exportOrders(period) ==
    /\ table.page = "orders"
    /\ table' = [table EXCEPT !.toast =
                    IF Len(exportOrders(table.allOrders, period, table.now)) = 0
                    THEN "info" ELSE "success"]
    /\ TableFrame

NextTable ==
    \/ \E n \in 1..Len(Nows) : tableTick(n)
    \/ \E a \in 1..2, b \in 0..MaxRows : tableSnapshot(a, b)
    \/ \E s \in SearchInputs : typeSearch(s)
    \/ debounced
    \/ \E s \in StatusInputs : selectStatus(s)
    \/ \E d \in DateInputs : selectDate(d)
    \/ refresh
    \/ \E page \in 0..(MaxRows + 1) : changePage(page)
    \/ \E period \in {"all", "today", "week", "month"} : window_exportOrders(period)

\* A step in which applyFilters ran: a snapshot that changed the mirror, a
\* change of the status or date filter, or the search box's timer firing.
Applies ==
    \/ table'.allOrders # table.allOrders
    \/ table'.status # table.status
    \/ table'.dateFilter # table.dateFilter
    \/ table.timer /\ ~table'.timer

\* The search term is a case-insensitive substring of id, name, phone or email.
SearchHolds(r, term) ==
    \/ term = <<>>
    \/ \E field \in {r.id, r.name, r.phone, r.email} :
           includes(toLowerCase(field), toLowerCase(term))

\* The status equals the selected one, or "all" or nothing is selected.
StatusHolds(r, status) == status \in {"", "all"} \/ r.status = status

\* C22: after applyFilters the filtered list is exactly the mirror's records,
\* in the mirror's order, whose id, name, phone or email contains the search
\* term whatever the case, whose status is the selected one (every status
\* when "all" or nothing is selected), and that pass the date filter.
C22_FilteredIsConjunction ==
    [][Applies =>
         table'.filteredOrders =
             SelectSeq(table'.allOrders, LAMBDA r :
                 /\ SearchHolds(r, trim(table'.search))
                 /\ StatusHolds(r, table'.status)
                 /\ (table'.page = "users"
                       \/ matchesDate(r, table'.dateFilter, table'.now)))]_vars

\* The start of a named date range.
rangeStart(range, now) ==
    CASE range = "today" -> now - (now % HoursPerDay)
      [] range = "week"  -> now - 7 * HoursPerDay
      [] range = "month" -> monthAgo(now)

\* The record's creation time lies in [rangeStart, now].
InRange(r, range, now) ==
    \/ range \in {"", "all"}
    \/ /\ r.createdAt # <<>>
       /\ rangeStart(range, now) <= r.createdAt[1]
       /\ r.createdAt[1] <= now

\* C23: on the orders page, with no search term and no status selected, an
\* order is in the filtered list exactly when its creation time lies between
\* the start of the selected range (today, week, month) and now; an order
\* without a creation time or dated after now is not listed, and the range
\* "all" lists every order.
C23_DateRange ==
    [][(Applies /\ table'.page = "orders"
          /\ table'.search = <<>> /\ table'.status = "")
       => \A i \in 1..Len(table'.allOrders) :
            (table'.allOrders[i].id \in ids(table'.filteredOrders))
              <=> InRange(table'.allOrders[i], table'.dateFilter, table'.now)]_vars

\* C24: a step that changes a filter the list was computed from leaves the
\* page at 1; after every step the rows shown are the records at positions
\* (p-1)*10+1 .. min(p*10, n) of the filtered list, at most 10 of them; and a
\* step to a page other than 1 changes neither the mirror nor the filtered list.
C24_PageSlice ==
    [][/\ (\/ table'.status # table.status
           \/ table'.dateFilter # table.dateFilter
           \/ table.timer /\ ~table'.timer) => table'.currentPage = 1
       /\ LET p == table'.currentPage
              n == Len(table'.filteredOrders)
              last == IF p * 10 <= n THEN p * 10 ELSE n
          IN  /\ table'.rows = [k \in 1..(last - (p - 1) * 10) |->
                                   table'.filteredOrders[(p - 1) * 10 + k]]
              /\ Len(table'.rows) <= 10
       /\ (table'.currentPage \notin {1, table.currentPage}
             => /\ table'.allOrders = table.allOrders
                /\ table'.filteredOrders = table.filteredOrders)]_vars

C24_Witness ==
    /\ table.page = "orders"
    /\ table.currentPage = 2
    /\ Len(table.filteredOrders) = MaxRows
    /\ Len(table.rows) = MaxRows - 10

\* Today's revenue: the totals of the orders created on the current local
\* calendar day that are not cancelled.
RECURSIVE RevenueOfDay(_, _)
RevenueOfDay(list, now) ==
    IF list = <<>> THEN 0
    ELSE LET r == Head(list)
         IN  (IF /\ r.createdAt # <<>>
                 /\ r.createdAt[1] \div HoursPerDay = now \div HoursPerDay
                 /\ r.status # "cancelled"
              THEN r.total ELSE 0) + RevenueOfDay(Tail(list), now)

\* C25: after a snapshot that changes the orders the page displays total =
\* number of orders, pending = number confirmed, packed or out for delivery,
\* delivered = number delivered, and today's revenue = the totals of the
\* orders created on the current local day that are not cancelled.
C25_Statistics ==
    [][(table'.allOrders # table.allOrders /\ table'.page = "orders")
       => table'.stats =
            <<Len(table'.allOrders),
              Cardinality({i \in 1..Len(table'.allOrders) :
                  table'.allOrders[i].status \in {"confirmed", "packed", "out_for_delivery"}}),
              Cardinality({i \in 1..Len(table'.allOrders) :
                  table'.allOrders[i].status = "delivered"}),
              RevenueOfDay(table'.allOrders, table'.now)>>]_vars

\* C30: the current page p satisfies 1 <= p <= max(1, ceil(n / 10)) for the
\* filtered list's length n, and a filtered list that is not empty never
\* shows an empty page.
C30_PageInRange ==
    LET n == Len(table.filteredOrders)
        pages == (n + 9) \div 10
    IN  /\ 1 <= table.currentPage
        /\ table.currentPage <= (IF pages >= 1 THEN pages ELSE 1)
        /\ (n > 0 => table.rows # <<>>)

C30_Witness ==
    /\ table.page = "users"
    /\ table.currentPage = 2
    /\ table.pagination = {1, 2}
    /\ table.rows # <<>>

(***************************************************************************)
(* The storefront's API client (src/unnamed/part_000): class FreshMartAPI, *)
(* the browser's localStorage, and the requests awaiting the backend.      *)
(* "" is null: a key localStorage does not hold, a token not set.          *)
(***************************************************************************)
\* The most requests awaiting their response at once.
MaxInFlight == 2

AccessTokens == {"a1", "a2"}
Profiles == {"u1", "u2"}
AuthEndpoints == {"/auth/register", "/auth/login", "/auth/verify-otp"}

NoStorage == [freshmart_token |-> "", freshmart_user |-> ""]
NoResponse == [endpoint |-> "", ok |-> FALSE, access_token |-> "", user |-> ""]

\* constructor(): this.token = localStorage.getItem(STORAGE_KEYS.TOKEN)
FreshMartAPI(localStorage) ==
    [token |-> localStorage.freshmart_token, localStorage |-> localStorage,
     pending |-> <<>>, data |-> NoResponse, unloading |-> FALSE]

NewClient == FreshMartAPI(NoStorage)

\* The Authorization header, <<>> when the request carries none.
getHeaders(a) == IF a.token # "" THEN <<"Bearer", a.token>> ELSE <<>>

\* request(endpoint) up to its `await fetch`.
request(a, endpoint) ==
    [a EXCEPT !.pending = Append(@, [endpoint |-> endpoint,
                                      Authorization |-> getHeaders(a)])]

setToken(a, token) ==
    [a EXCEPT !.token = token, !.localStorage.freshmart_token = token]

clearAuth_keepsUser(a) ==
    [a EXCEPT !.token = "", !.localStorage.freshmart_token = ""]

clearAuth(a) == [a EXCEPT !.token = "", !.localStorage = NoStorage]

ClientFrame == UNCHANGED <<orders, clock, currentAdmin, allOrders, modal, inflight, toast,
                           authUsers, admins, users, calls,
                           signedIn, guard, initCalls, login, remote, view,
                           table, dash>>

\* The page's script runs: the first visit, a reload, or the page logout
\* navigated to.  A stored token is one an earlier visit left.
InitClient ==
    api \in {FreshMartAPI(s) : s \in {NoStorage} \cup
                 {[freshmart_token |-> "a1", freshmart_user |-> "u1"]}}

load ==
    /\ api' = FreshMartAPI(api.localStorage)
    /\ ClientFrame

\* register, login, verifyOTP (the three AuthEndpoints) and getProfile
\* ("/users/me") up to the await in request().
send(endpoint) ==
    /\ ~api.unloading
    /\ Len(api.pending) < MaxInFlight
    /\ api' = request(api, endpoint)
    /\ ClientFrame

\* The backend answers request i.  A response that is not ok makes request()
\* throw, and the caller stops; register, login and verifyOTP go on with
\* setToken and the user profile.
respond(i, ok, access_token, user) ==
    /\ i <= Len(api.pending)
    /\ LET r == api.pending[i]
           a == [api EXCEPT
                    !.pending = SubSeq(@, 1, i - 1) \o SubSeq(@, i + 1, Len(@)),
                    !.data = [endpoint |-> r.endpoint, ok |-> ok,
                              access_token |-> access_token, user |-> user]]
       IN  api' = IF ok /\ r.endpoint \in AuthEndpoints
                  THEN [setToken(a, access_token) EXCEPT !.localStorage.freshmart_user = user]
                  ELSE a
    /\ ClientFrame

\* logout(): clearAuth, then the browser starts loading /index.html.
logout ==
    /\ ~api.unloading
    /\ api' = [clearAuth(api) EXCEPT !.unloading = TRUE]
    /\ ClientFrame

NextClient ==
    \/ load
    \/ \E endpoint \in AuthEndpoints \cup {"/users/me"} : send(endpoint)
    \/ \E i \in 1..MaxInFlight, ok \in BOOLEAN, t \in AccessTokens, u \in Profiles :
           respond(i, ok, t, u)
    \/ logout

\* A step that sends a request.
Sends == Len(api'.pending) > Len(api.pending)

\* A step in which register, login or verifyOTP gets an ok response.
Authenticates ==
    /\ Len(api'.pending) = Len(api.pending) - 1
    /\ api'.data.ok
    /\ api'.data.endpoint \in AuthEndpoints

\* A step in which logout runs.
LogsOut == api'.unloading /\ ~api.unloading

\* C26: a request carries "Bearer <token>" exactly when localStorage holds a
\* token, and then that token; the token in memory is the stored one; the
\* token and profile change only when an authentication succeeds, to the
\* token and profile it returned, or when logout runs; and after logout
\* neither memory nor localStorage holds a token or a profile.
C26_BearerIffStored ==
    [][/\ Sends =>
            api'.pending[Len(api'.pending)].Authorization =
                IF api.localStorage.freshmart_token # ""
                THEN <<"Bearer", api.localStorage.freshmart_token>> ELSE <<>>
       /\ api'.token = api'.localStorage.freshmart_token
       /\ Authenticates =>
            /\ api'.token = api'.data.access_token
            /\ api'.localStorage = [freshmart_token |-> api'.data.access_token,
                                    freshmart_user |-> api'.data.user]
       /\ LogsOut => api'.token = "" /\ api'.localStorage = NoStorage
       /\ (api'.token # api.token \/ api'.localStorage # api.localStorage)
            => (Authenticates \/ LogsOut)]_vars

C26_Witness ==
    /\ api.token = "a2"
    /\ api.localStorage = [freshmart_token |-> "a2", freshmart_user |-> "u2"]
    /\ api.data.ok /\ api.data.endpoint = "/auth/verify-otp"
    /\ Len(api.pending) = 1
    /\ api.pending[1].Authorization = <<"Bearer", "a2">>

(***************************************************************************)
(* The dashboard's order statistics (dashboard.js): the snapshot listener  *)
(* of setupRealtimeListeners starts loadOrderStats, which reads the orders *)
(* collection with getDocs and writes the counts when the read returns.    *)
(***************************************************************************)
\* The most loadOrderStats calls awaiting getDocs at once.
MaxFetches == 2

\* A loadOrderStats call at its await: whether the server has evaluated the
\* query, and the documents it returned.
NewFetch == [read |-> FALSE, docs |-> NoDocs]

\* The dashboard before initDashboard ran.
NewDashboard ==
    [first |-> TRUE, known |-> NoDocs, fetches |-> <<>>,
     totalOrders |-> 0, pendingOrders |-> 0, toast |-> "none"]

\* initDashboard: loadDashboardData has called loadOrderStats, and
\* setupRealtimeListeners has subscribed.
InitDashboard == dash = [NewDashboard EXCEPT !.fetches = <<NewFetch>>]

DashFrame == UNCHANGED <<orders, clock, currentAdmin, allOrders, modal, inflight, toast,
                         authUsers, admins, users, calls,
                         signedIn, guard, initCalls, login, view,
                         table, api>>

\* An admin marks a packed order delivered.
orderDelivered(d) ==
    /\ remote.orders[d] = "packed"
    /\ remote' = [remote EXCEPT !.orders[d] = "delivered"]
    /\ UNCHANGED dash
    /\ DashFrame

\* The onSnapshot callback: loadOrderStats() is started and not awaited; one
\* added order with status confirmed raises the toast.
dashboardSnapshot ==
    /\ dash.first \/ remote.orders # dash.known
    /\ Len(dash.fetches) < MaxFetches
    /\ LET new == added(dash.known, remote.orders)
       IN  dash' = [dash EXCEPT
                       !.first = FALSE,
                       !.known = remote.orders,
                       !.fetches = Append(@, NewFetch),
                       !.toast = IF Cardinality(new) = 1
                                    /\ \E d \in new : remote.orders[d] = "confirmed"
                                 THEN "info" ELSE @]
    /\ UNCHANGED remote
    /\ DashFrame

\* The server evaluates the query of fetch i.
getDocs(i) ==
    /\ i <= Len(dash.fetches)
    /\ ~dash.fetches[i].read
    /\ dash' = [dash EXCEPT !.fetches[i] = [read |-> TRUE, docs |-> remote.orders]]
    /\ UNCHANGED remote
    /\ DashFrame

\* loadOrderStats after `await getDocs`: count, then write the counts.
loadOrderStats(i) ==
    /\ i <= Len(dash.fetches)
    /\ dash.fetches[i].read
    /\ LET snapshot == dash.fetches[i].docs
       IN  dash' = [dash EXCEPT
               !.fetches = SubSeq(@, 1, i - 1) \o SubSeq(@, i + 1, Len(@)),
               !.totalOrders = size(snapshot),
               !.pendingOrders = Cardinality({d \in DocIds :
                   snapshot[d] \in {"confirmed", "packed", "out_for_delivery"}})]
    /\ UNCHANGED remote
    /\ DashFrame

NextDash ==
    \/ \E d \in DocIds : placeOrder(d)
    \/ \E d \in DocIds : orderPacked(d)
    \/ \E d \in DocIds : orderDelivered(d)
    \/ dashboardSnapshot
    \/ \E i \in 1..MaxFetches : getDocs(i)
    \/ \E i \in 1..MaxFetches : loadOrderStats(i)

\* C27: when every loadOrderStats call that was started has completed and the
\* listener has delivered the latest change, the dashboard shows the total
\* and pending counts of the orders collection as it is now.
C27_LatestStatsShown ==
    (dash.fetches = <<>> /\ ~dash.first /\ dash.known = remote.orders)
    => /\ dash.totalOrders = Cardinality({d \in DocIds : remote.orders[d] # "absent"})
       /\ dash.pendingOrders = Cardinality({d \in DocIds :
              remote.orders[d] \in {"confirmed", "packed", "out_for_delivery"}})

(***************************************************************************)
(* Initial values of the parts a specification does not use.               *)
(***************************************************************************)
IdleOrders ==
    /\ orders = [o \in OrderIds |-> NewOrder]
    /\ clock = 0
    /\ currentAdmin = [s \in Sessions |-> [email |-> "ann@freshmart"]]
    /\ allOrders = [s \in Sessions |-> EmptyMirror]
    /\ modal = [s \in Sessions |-> ClosedModal]
    /\ inflight = [s \in Sessions |-> <<>>]
    /\ toast = [s \in Sessions |-> "none"]

IdleAuth ==
    /\ signedIn = 0
    /\ guard = [t \in Tabs |-> ClosedGuard]
    /\ initCalls = [t \in Tabs |-> NoInit]
    /\ login = IdleLogin

IdleViews ==
    /\ remote = [orders |-> NoDocs, users |-> NoDocs]
    /\ view = [t \in Tabs |-> NoView]

\* The identities there can be when a browser opens the admin portal: the
\* initial super admin, and whatever createAdmin, createUser and the status
\* operations have made of the other uids.
InitIdentities ==
    /\ authUsers \in {f \in [Uids -> {Unused} \cup
                              {Identity(r, d) : r \in {"none", "user", "admin", "super_admin"},
                                                d \in BOOLEAN}] :
                        f[1] = Identity("super_admin", FALSE)}
    /\ admins = [u \in Uids |->
                    IF authUsers[u].role \in {"admin", "super_admin"}
                    THEN AdminDoc(authUsers[u].role, authUsers[u].disabled) ELSE NoDoc]
    /\ users = [u \in Uids |->
                    IF authUsers[u].role = "user"
                    THEN UserDoc(IF authUsers[u].disabled THEN "suspended" ELSE "active")
                    ELSE NoDoc]
    /\ calls = [c \in CallSlots |-> IdleCall]

IdlePages ==
    /\ table = NewTable("orders")
    /\ api = NewClient
    /\ dash = NewDashboard

InitSpecOrders == InitOrders /\ InitFn /\ IdleAuth /\ IdleViews /\ IdlePages

SpecOrders == InitSpecOrders /\ [][NextOrders]_vars

InitSpecOneSession == InitOneSession /\ InitFn /\ IdleAuth /\ IdleViews /\ IdlePages

SpecOneSession == InitSpecOneSession /\ [][NextOneSession]_vars

InitSpecFn == IdleOrders /\ InitFn /\ IdleAuth /\ IdleViews /\ IdlePages

SpecFn        == InitSpecFn /\ [][NextFn]_vars
SpecAdminRace == InitSpecFn /\ [][NextAdminRace]_vars
SpecUsers     == InitSpecFn /\ [][NextUsers]_vars

InitSpecAuth == IdleOrders /\ InitIdentities /\ IdleAuth /\ IdleViews /\ IdlePages

SpecAuth == InitSpecAuth /\ [][NextAuth]_vars

SpecViews == InitSpecAuth /\ [][NextViews]_vars

InitSpecTable ==
    /\ IdleOrders /\ InitFn /\ IdleAuth /\ IdleViews
    /\ InitTable /\ api = NewClient /\ dash = NewDashboard

SpecTable == InitSpecTable /\ [][NextTable]_vars

InitSpecClient ==
    /\ IdleOrders /\ InitFn /\ IdleAuth /\ IdleViews
    /\ table = NewTable("orders") /\ InitClient /\ dash = NewDashboard

SpecClient == InitSpecClient /\ [][NextClient]_vars

InitSpecDash ==
    /\ IdleOrders /\ InitFn /\ IdleAuth /\ IdleViews
    /\ table = NewTable("orders") /\ api = NewClient /\ InitDashboard

SpecDash == InitSpecDash /\ [][NextDash]_vars

InitSpecSetup == IdleOrders /\ InitSetup /\ IdleAuth /\ IdleViews /\ IdlePages

SpecSetup == InitSpecSetup /\ [][NextSetup]_vars

====
